---- MODULE Spec2Model ----
(***************************************************************************)
(* TOKEN-WATCHER: the monitoring-and-sweep engine.                         *)
(*   TokenSweeper  (server/services/web3Service.ts, lines 393-684)         *)
(*   GasOptimizer  (server/services/web3Service.ts, lines 693-861)         *)
(*   TokenDetector (unnamed/part_000)                                      *)
(*   MemStorage    (shared/schema.ts, lines 160-360)                       *)
(* Every async function is a task whose position (pc) advances from one    *)
(* await to the next; the code between two awaits is one atomic action.    *)
(* A storage call takes effect when it is called (MemStorage methods have  *)
(* no await inside), and the caller resumes in a later step. The promise   *)
(* of such a call is already resolved, so the caller resumes as a          *)
(* microtask: timers, requests and ledger responses (macrotasks) run only  *)
(* when no task waits at such an await (MacroTurn).                        *)
(***************************************************************************)
EXTENDS Integers, Sequences, FiniteSets, Bags, TLC

(***************************************************************************)
(* Bounds of the model                                                     *)
(***************************************************************************)
MaxSweeps == 2
MaxScans == 2
MaxBal == 2
MaxTimers == 2
MaxStops == 1
MaxProbes == 2
MaxRemovals == 1
MaxPatches == 2

(***************************************************************************)
(* Identifiers are sequences of characters, so that lower-casing, string   *)
(* concatenation and startsWith are computed as the code computes them.    *)
(***************************************************************************)
W1 == <<"a">>
W2 == <<"a", "b">>
\* a wallet address given in mixed (checksum) case
WMixed == <<"A">>
Wallets == {W1, W2, WMixed}

\* a catalog token (it has a price), the same address spelled in upper
\* case, and a token outside the catalog
TCat == <<"x">>
TCatUpper == <<"X">>
TNew == <<"y">>
Tokens == {TCat, TCatUpper, TNew}

LowerChar(c) ==
  IF c = "X" THEN "x" ELSE IF c = "Y" THEN "y" ELSE IF c = "A" THEN "a"
  ELSE IF c = "B" THEN "b" ELSE c

ToLowerCase(s) == [k \in 1..Len(s) |-> LowerChar(s[k])]

StartsWith(s, p) == Len(p) <= Len(s) /\ SubSeq(s, 1, Len(p)) = p

SweepKey(w, t) == w \o <<"-">> \o t

Balances == 0..MaxBal
SweepIds == 1..MaxSweeps
ScanIds == 1..MaxScans
Urgencies == {"low", "medium", "high"}

(***************************************************************************)
(* State                                                                   *)
(***************************************************************************)
VARIABLES
  activeSweeps,        \* TokenSweeper.activeSweeps: the set of keys mapped to true
  sw,                  \* the invocations of sweepToken, by invocation id
  poll,                \* the confirmation pollers, by transaction id
  walletConfigs,       \* MemStorage.walletConfigs
  transactions,        \* MemStorage.transactions, in insertion order
  activities,          \* MemStorage.activities, as a bag of records
  events,              \* what was handed to broadcastCallback, as a bag
  currentNetworkLoad,  \* GasOptimizer.currentNetworkLoad
  manual,              \* the latest manual sweep request and what became of it
  sampled,             \* the base fee updateNetworkLoad was answered last, -1: none yet
  monitoringWallets,   \* TokenDetector.monitoringWallets
  timers,              \* the armed setInterval timers of schedulePeriodicScan
  specificTokensToMonitor, \* TokenDetector.specificTokensToMonitor
  knownTokens,         \* TokenDetector.knownTokens: its keys, in insertion order
  tokenDetections,     \* MemStorage.tokenDetections, in insertion order
  scan,                \* the running detector tasks (ticks, startMonitoring, probes)
  trading              \* the ledger: what isContractTradingEnabled answers, per token

sweeperVars == <<activeSweeps, sw, poll, transactions, activities, events>>
detectorVars == <<monitoringWallets, timers, specificTokensToMonitor, knownTokens,
                  tokenDetections, scan>>
vars == <<activeSweeps, sw, poll, walletConfigs, transactions, activities, events,
          currentNetworkLoad, manual, sampled, monitoringWallets, timers, specificTokensToMonitor,
          knownTokens, tokenDetections, scan, trading>>

(***************************************************************************)
(* MemStorage                                                              *)
(***************************************************************************)
NoConfig == [exists |-> FALSE, isActive |-> FALSE, autoSweepEnabled |-> FALSE,
             minTransferAmount |-> 0, gasStrategy |-> "standard"]

\* createWalletConfig: the record stored under config.walletAddress
WalletConfig(active, auto, min, strategy) ==
  [exists |-> TRUE, isActive |-> active, autoSweepEnabled |-> auto,
   minTransferAmount |-> min, gasStrategy |-> strategy]

\* getWalletConfig: this.walletConfigs.get(walletAddress)
GetWalletConfig(configs, w) == IF w \in DOMAIN configs THEN configs[w] ELSE NoConfig

\* createTransaction: a new record, appended; its id is its position
NewTransaction(w, t, amount, usd, gasPrice, by) ==
  [walletAddress |-> w, tokenAddress |-> t, amount |-> amount, amountUSD |-> usd,
   txHash |-> 0, status |-> "pending", gasUsed |-> 0, gasPrice |-> gasPrice,
   blockNumber |-> 0, completed |-> FALSE, by |-> by]

CreateTransaction(txs, tx) == Append(txs, tx)

\* updateTransaction(id, {status}) and updateTransaction(id, {txHash, status}):
\* { ...existing, ...updates }, completedAt set on the first 'completed'
UpdateTransaction(txs, id, hash, status) ==
  IF id \in DOMAIN txs
  THEN [txs EXCEPT ![id] = [@ EXCEPT !.txHash = IF hash = 0 THEN @ ELSE hash,
                                     !.status = status,
                                     !.completed = @ \/ status = "completed"]]
  ELSE txs

\* updateTransaction(id, {gasUsed, blockNumber, status}) of the poller
UpdateTransactionReceipt(txs, id, gas, block, status) ==
  IF id \in DOMAIN txs
  THEN [txs EXCEPT ![id] = [@ EXCEPT !.gasUsed = gas, !.blockNumber = block,
                                     !.status = status,
                                     !.completed = @ \/ status = "completed"]]
  ELSE txs

\* getTransactionsByStatus(status): the ids, in insertion order
GetTransactionsByStatus(txs, status) ==
  SelectSeq([k \in 1..Len(txs) |-> k], LAMBDA k: txs[k].status = status)

\* createActivity
CreateActivity(acts, w, type, status) ==
  acts (+) SetToBag({[walletAddress |-> w, type |-> type, status |-> status]})

\* this.broadcastCallback?.({type, data}, walletAddress)
Broadcast(evs, type, tx, w) ==
  evs (+) SetToBag({[type |-> type, tx |-> tx, wallet |-> w]})

\* mockPrices / tokenPrices: the price table, keyed by lower-case address
UsdcPrice == 1

\* a price table that prices an address it does not list like the listed one
MockPriceDefault(t) == UsdcPrice

MockPrice(t) == IF ToLowerCase(t) = TCat THEN UsdcPrice ELSE 0

\* createTokenDetection: a new record, appended; its id is its position
NewTokenDetection(w, t, b) ==
  [walletAddress |-> w, tokenAddress |-> t, balance |-> b,
   balanceUSD |-> b * MockPrice(t), tradingEnabled |-> FALSE]

CreateTokenDetection(dets, d) == Append(dets, d)

\* the spread written from a stale copy: whatever the update does not name
\* falls back to the value of a new record
UpdateTokenDetectionFromDefaults(dets, id, updates) ==
  IF id \in DOMAIN dets
  THEN [dets EXCEPT ![id] =
          [f \in DOMAIN dets[id] |->
             IF f \in DOMAIN updates THEN updates[f]
             ELSE IF f = "tradingEnabled" THEN FALSE ELSE dets[id][f]]]
  ELSE dets

\* updateTokenDetection(id, updates): { ...existing, ...updates }
UpdateTokenDetection(dets, id, updates) ==
  IF id \in DOMAIN dets
  THEN [dets EXCEPT ![id] =
          [f \in DOMAIN dets[id] |->
             IF f \in DOMAIN updates THEN updates[f] ELSE dets[id][f]]]
  ELSE dets

\* getTokenDetections(walletAddress): the ids of the wallet's records, the
\* newest first (sorted by detectedAt, descending)
RECURSIVE Reverse(_)
Reverse(q) == IF q = <<>> THEN <<>> ELSE Append(Reverse(Tail(q)), Head(q))

GetTokenDetections(dets, w) ==
  Reverse(SelectSeq([k \in 1..Len(dets) |-> k], LAMBDA k: dets[k].walletAddress = w))

\* existingDetections.find(d => d.tokenAddress.toLowerCase() === token): the id
\* of the first match, 0 when there is none
FindDetection(dets, w, token) ==
  LET found == SelectSeq(GetTokenDetections(dets, w),
                         LAMBDA k: ToLowerCase(dets[k].tokenAddress) = token)
  IN IF found = <<>> THEN 0 ELSE found[1]

(***************************************************************************)
(* GasOptimizer.getOptimalGasPrice, in hundredths of a gwei (toFixed(2)).  *)
(* base is the base fee in whole gwei, or -1 when getGasPrice throws.      *)
(***************************************************************************)
StrategyMultiplier(strategy) ==       \* in tenths
  IF strategy = "slow" THEN 8 ELSE IF strategy = "fast" THEN 13 ELSE 10

\* the cases of the switch exchanged
UrgencyMultiplierSwapped(urgency) ==
  IF urgency = "high" THEN 9 ELSE IF urgency = "low" THEN 12 ELSE 10

UrgencyMultiplier(urgency) ==         \* in tenths
  IF urgency = "high" THEN 12 ELSE IF urgency = "low" THEN 9 ELSE 10

CongestionFactor(load) ==             \* in hundredths
  IF load > 80 THEN 110 ELSE IF load < 30 THEN 95 ELSE 100

MinGasPrice == 1
FallbackGasPrice == 30

Max(a, b) == IF a >= b THEN a ELSE b

\* the price without Math.max(gasPrice, minGasPrice)
GetOptimalGasPriceNoFloor(strategy, urgency, load, base) ==
  IF base < 0 THEN FallbackGasPrice * 100
  ELSE (base * StrategyMultiplier(strategy) * UrgencyMultiplier(urgency)
          * CongestionFactor(load) + 50) \div 100

GetOptimalGasPrice(strategy, urgency, load, base) ==
  IF base < 0 THEN FallbackGasPrice * 100
  ELSE LET raw == base * StrategyMultiplier(strategy) * UrgencyMultiplier(urgency)
                    * CongestionFactor(load)           \* in 1/10000 gwei
           floored == Max(raw, MinGasPrice * 10000)
       IN (floored + 50) \div 100

(***************************************************************************)
(* TokenSweeper                                                            *)
(***************************************************************************)
\* getTokenValueUSD: mockPrices[tokenAddress.toLowerCase()] || 0, times the balance
GetTokenValueUSD(t, balance) == balance * MockPrice(t)

IdleSweep ==
  [pc |-> "idle", wallet |-> <<>>, token |-> <<>>, balance |-> 0, urgency |-> "high",
   source |-> "none", cfg |-> NoConfig, usd |-> 0, gasPrice |-> 0, txId |-> 0,
   failedTx |-> 0, result |-> 0,
   \* history of the invocation, for the properties
   base |-> 0, load |-> 0,
   blocked |-> FALSE, gasAsked |-> FALSE, submitted |-> FALSE, marked |-> 0,
   transferThrew |-> FALSE, blockedBy |-> 0]

\* the invocations are numbered in the order they start
NextSweepId == CHOOSE i \in SweepIds : sw[i].pc = "idle" /\ \A j \in 1..(i-1) : sw[j].pc # "idle"
SweepIdFree == \E i \in SweepIds : sw[i].pc = "idle"

\* the guard of line 412 left out
SweepInProgressNoGuard(locks, key) == FALSE

\* line 412: this.activeSweeps.get(sweepKey)
SweepInProgress(locks, key) == key \in locks

\* line 417: this.activeSweeps.set(sweepKey, true)
AcquireSweep(locks, key) == locks \cup {key}

\* the delete of line 571 left out
ReleaseSweepNothing(locks, key) == locks

\* line 571: this.activeSweeps.delete(sweepKey)
ReleaseSweep(locks, key) == locks \ {key}

\* the invocations past the guard of line 412 that have not returned
InFlight(key) ==
  {i \in SweepIds : /\ sw[i].pc \notin {"idle", "done"}
                    /\ SweepKey(sw[i].wallet, sw[i].token) = key}

\* for the properties: the invocation in flight that a blocked call met
Holder(key) == IF InFlight(key) = {} THEN 0 ELSE CHOOSE i \in InFlight(key) : TRUE

\* the guard of line 412 moved inside the try block, so that the finally
\* block runs for a blocked call too
SweepEntryGuardInTry(w, t, b, u, src) ==
  LET key == SweepKey(w, t)
      base == [IdleSweep EXCEPT !.wallet = w, !.token = t, !.balance = b,
                                !.urgency = u, !.source = src]
  IN IF key \in activeSweeps
     THEN [rec |-> [base EXCEPT !.pc = "done", !.blocked = TRUE,
                                !.blockedBy = Holder(key)],
           locks |-> activeSweeps \ {key}]
     ELSE [rec |-> [base EXCEPT !.pc = "config",
                                !.cfg = GetWalletConfig(walletConfigs, w)],
           locks |-> activeSweeps \cup {key}]

\* lines 409-421: the guard, the lock and the call of getWalletConfig.
\* A state function: the invocation record and the lock set after the call.
SweepEntry(w, t, b, u, src) ==
  LET key == SweepKey(w, t)
      base == [IdleSweep EXCEPT !.wallet = w, !.token = t, !.balance = b,
                                !.urgency = u, !.source = src]
  IN IF SweepInProgress(activeSweeps, key)
     THEN [rec |-> [base EXCEPT !.pc = "done", !.blocked = TRUE,
                                !.blockedBy = Holder(key)],
           locks |-> activeSweeps]
     ELSE [rec |-> [base EXCEPT !.pc = "config",
                                !.cfg = GetWalletConfig(walletConfigs, w)],
           locks |-> AcquireSweep(activeSweeps, key)]

\* the positions at which a task waits for an already resolved promise
\* (a MemStorage call, getTokenValueUSD); at the others it waits for the ledger
SweepMicroPcs == {"config", "value", "created", "logged", "updated", "logged2",
                  "catch", "catchMarked", "catchLogged"}

\* the event loop takes the next macrotask only when the microtask queue is
\* empty: no sweep waits at a resolved promise, and no detector task waits
\* for a sweepToken call that has returned
MacroTurn ==
  /\ \A i \in SweepIds : sw[i].pc \notin SweepMicroPcs
  /\ \A s \in ScanIds : scan[s].pc = "sweeping" => sw[scan[s].child].pc # "done"

\* sweepToken called from outside the detector (the manual sweep route)
SweepToken(w, t, b, u) ==
  /\ MacroTurn
  /\ SweepIdFree
  /\ LET e == SweepEntry(w, t, b, u, "manual")
     IN /\ sw' = [sw EXCEPT ![NextSweepId] = e.rec]
        /\ activeSweeps' = e.locks
  /\ UNCHANGED <<poll, walletConfigs, transactions, activities, events,
                 currentNetworkLoad, manual, sampled, detectorVars, trading>>

\* lines 532-535 on the result of line 531: the first pending transaction of
\* this wallet and token, 0 when there is none
FindFailedTx(txs, w, t) ==
  LET pending == GetTransactionsByStatus(txs, "pending")
      mine == SelectSeq(pending, LAMBDA k: txs[k].walletAddress = w
                                           /\ txs[k].tokenAddress = t)
  IN IF Len(mine) = 0 THEN 0 ELSE mine[1]

\* the return of an invocation: the finally block, lines 570-572
Return(i, result) ==
  /\ activeSweeps' = ReleaseSweep(activeSweeps, SweepKey(sw[i].wallet, sw[i].token))
  /\ sw' = [sw EXCEPT ![i].pc = "done", ![i].result = result]

\* a throw inside the try block: the catch block up to its first await (line 531)
Catch(i) ==
  /\ sw' = [sw EXCEPT ![i].pc = "catch",
                      ![i].failedTx = FindFailedTx(transactions, sw[i].wallet, sw[i].token)]
  /\ UNCHANGED activeSweeps

\* lines 422-427: the configuration check, then getTokenValueUSD
SweepConfig(i) ==
  /\ sw[i].pc = "config"
  /\ IF ~sw[i].cfg.exists \/ ~sw[i].cfg.isActive
     THEN Catch(i)
     ELSE /\ sw' = [sw EXCEPT ![i].pc = "value",
                              ![i].usd = GetTokenValueUSD(sw[i].token, sw[i].balance)]
          /\ UNCHANGED activeSweeps
  /\ UNCHANGED <<poll, walletConfigs, transactions, activities, events,
                 currentNetworkLoad, manual, sampled, detectorVars, trading>>

\* the threshold check of line 430 left out
SweepThresholdNoCheck(i) ==
  /\ sw[i].pc = "value"
  /\ sw' = [sw EXCEPT ![i].pc = "gas", ![i].gasAsked = TRUE]
  /\ UNCHANGED <<activeSweeps, poll, walletConfigs, transactions, activities, events,
                 currentNetworkLoad, manual, sampled, detectorVars, trading>>

\* lines 428-436: the threshold check, then the call of getOptimalGasPrice
SweepThreshold(i) ==
  /\ sw[i].pc = "value"
  /\ IF sw[i].usd < sw[i].cfg.minTransferAmount
     THEN Return(i, 0)
     ELSE /\ sw' = [sw EXCEPT ![i].pc = "gas", ![i].gasAsked = TRUE]
          /\ UNCHANGED activeSweeps
  /\ UNCHANGED <<poll, walletConfigs, transactions, activities, events,
                 currentNetworkLoad, manual, sampled, detectorVars, trading>>

\* lines 436-448: the fee price arrives, createTransaction is called
SweepCreateTransaction(i, base) ==
  /\ MacroTurn
  /\ sw[i].pc = "gas"
  /\ LET price == GetOptimalGasPrice(sw[i].cfg.gasStrategy, sw[i].urgency,
                                     currentNetworkLoad, base)
     IN /\ transactions' = CreateTransaction(transactions,
              NewTransaction(sw[i].wallet, sw[i].token, sw[i].balance, sw[i].usd, price, i))
        /\ sw' = [sw EXCEPT ![i].pc = "created", ![i].gasPrice = price,
                            ![i].txId = Len(transactions) + 1,
                            ![i].base = base, ![i].load = currentNetworkLoad]
  /\ UNCHANGED <<activeSweeps, poll, walletConfigs, activities, events,
                 currentNetworkLoad, manual, sampled, detectorVars, trading>>

\* lines 451-464: createActivity('transfer_started')
SweepLogStarted(i) ==
  /\ sw[i].pc = "created"
  /\ activities' = CreateActivity(activities, sw[i].wallet, "transfer_started", "pending")
  /\ sw' = [sw EXCEPT ![i].pc = "logged"]
  /\ UNCHANGED <<activeSweeps, poll, walletConfigs, transactions, events,
                 currentNetworkLoad, manual, sampled, detectorVars, trading>>

\* lines 467-484: broadcast sweep_initiated, then the call of transferToken
SweepSubmit(i) ==
  /\ sw[i].pc = "logged"
  /\ events' = Broadcast(events, "sweep_initiated", sw[i].txId, sw[i].wallet)
  /\ sw' = [sw EXCEPT ![i].pc = "transfer", ![i].submitted = TRUE]
  /\ UNCHANGED <<activeSweeps, poll, walletConfigs, transactions, activities,
                 currentNetworkLoad, manual, sampled, detectorVars, trading>>

\* updateTransaction of line 487 with the status alone
SweepTransferredNoHash(i) ==
  /\ MacroTurn
  /\ sw[i].pc = "transfer"
  /\ transactions' = UpdateTransaction(transactions, sw[i].txId, 0, "completed")
  /\ sw' = [sw EXCEPT ![i].pc = "updated", ![i].result = i]
  /\ UNCHANGED <<activeSweeps, poll, walletConfigs, activities, events,
                 currentNetworkLoad, manual, sampled, detectorVars, trading>>

\* lines 478-490: transferToken returns the hash, updateTransaction is called
SweepTransferred(i) ==
  /\ MacroTurn
  /\ sw[i].pc = "transfer"
  /\ transactions' = UpdateTransaction(transactions, sw[i].txId, i, "completed")
  /\ sw' = [sw EXCEPT ![i].pc = "updated", ![i].result = i]
  /\ UNCHANGED <<activeSweeps, poll, walletConfigs, activities, events,
                 currentNetworkLoad, manual, sampled, detectorVars, trading>>

\* lines 478-484 and 527-531: transferToken throws
SweepTransferFailed(i) ==
  /\ MacroTurn
  /\ sw[i].pc = "transfer"
  /\ sw' = [sw EXCEPT ![i].pc = "catch", ![i].transferThrew = TRUE,
                      ![i].failedTx = FindFailedTx(transactions, sw[i].wallet, sw[i].token)]
  /\ UNCHANGED activeSweeps
  /\ UNCHANGED <<poll, walletConfigs, transactions, activities, events,
                 currentNetworkLoad, manual, sampled, detectorVars, trading>>

\* lines 493-505: createActivity('transfer_completed')
SweepLogCompleted(i) ==
  /\ sw[i].pc = "updated"
  /\ activities' = CreateActivity(activities, sw[i].wallet, "transfer_completed", "completed")
  /\ sw' = [sw EXCEPT ![i].pc = "logged2"]
  /\ UNCHANGED <<activeSweeps, poll, walletConfigs, transactions, events,
                 currentNetworkLoad, manual, sampled, detectorVars, trading>>

\* for the properties: no receipt obtained yet
NoReceipt == [status |-> FALSE, gasUsed |-> 0, gasPrice |-> 0, blockNumber |-> 0]

\* monitorTransactionReceipt up to its await-free end: setTimeout(checkReceipt, 10000)
StartPoller(p, txId) ==
  IF txId \in DOMAIN p THEN [p EXCEPT ![txId] = [state |-> "armed", attempts |-> 0,
                                                 queries |-> 0, writes |-> 0,
                                                 started |-> p[txId].started + 1,
                                                 got |-> NoReceipt]]
  ELSE p

\* lines 508-525 and 570-572: broadcast sweep_completed, start the poller,
\* return the hash
SweepFinish(i) ==
  /\ sw[i].pc = "logged2"
  /\ events' = Broadcast(events, "sweep_completed", sw[i].txId, sw[i].wallet)
  /\ poll' = StartPoller(poll, sw[i].txId)
  /\ Return(i, sw[i].result)
  /\ UNCHANGED <<walletConfigs, transactions, activities,
                 currentNetworkLoad, manual, sampled, detectorVars, trading>>

\* lines 537-554: the pending transaction found is marked failed, createActivity
\* is called; with none found the invocation returns null (line 569)
SweepCatchMark(i) ==
  /\ sw[i].pc = "catch"
  /\ IF sw[i].failedTx # 0
     THEN /\ transactions' = UpdateTransaction(transactions, sw[i].failedTx, 0, "failed")
          /\ sw' = [sw EXCEPT ![i].pc = "catchMarked", ![i].marked = sw[i].failedTx]
          /\ UNCHANGED activeSweeps
     ELSE /\ Return(i, 0)
          /\ UNCHANGED transactions
  /\ UNCHANGED <<poll, walletConfigs, activities, events,
                 currentNetworkLoad, manual, sampled, detectorVars, trading>>

\* lines 543-554: createActivity('transfer_failed')
SweepCatchLog(i) ==
  /\ sw[i].pc = "catchMarked"
  /\ activities' = CreateActivity(activities, sw[i].wallet, "transfer_failed", "failed")
  /\ sw' = [sw EXCEPT ![i].pc = "catchLogged"]
  /\ UNCHANGED <<activeSweeps, poll, walletConfigs, transactions, events,
                 currentNetworkLoad, manual, sampled, detectorVars, trading>>

\* lines 557-572: broadcast sweep_failed, return null
SweepCatchFinish(i) ==
  /\ sw[i].pc = "catchLogged"
  /\ events' = Broadcast(events, "sweep_failed", sw[i].failedTx, sw[i].wallet)
  /\ Return(i, 0)
  /\ UNCHANGED <<poll, walletConfigs, transactions, activities,
                 currentNetworkLoad, manual, sampled, detectorVars, trading>>

\* a storage call of the catch block rejects: the error leaves sweepToken
\* through the finally block (lines 570-572)
SweepCatchThrows(i) ==
  /\ sw[i].pc \in {"catch", "catchMarked", "catchLogged"}
  /\ Return(i, -1)
  /\ UNCHANGED <<poll, walletConfigs, transactions, activities, events,
                 currentNetworkLoad, manual, sampled, detectorVars, trading>>

(***************************************************************************)
(* The confirmation poller: checkReceipt of monitorTransactionReceipt      *)
(***************************************************************************)
maxAttempts == 60

NoPoller ==
  [state |-> "none", attempts |-> 0, queries |-> 0, writes |-> 0, started |-> 0,
   \* for the properties: the receipt the poller obtained
   got |-> NoReceipt]

\* the receipts of the ledger: gasUsed in units of gas, gasPrice in gwei (0:
\* the receipt has no gasPrice field)
TransferGas == 21000
Receipts == [status : BOOLEAN, gasUsed : {TransferGas}, gasPrice : {0, 1}, blockNumber : {1}]

\* lines 586-588: (gasUsed * gasPrice / 1e18).toFixed(6), in millionths of an ETH
GasCostETH(gasUsed, gasPrice) == (gasUsed * gasPrice + 500) \div 1000

\* the return of line 612 left out: the poller stays armed after a receipt
PollReceiptRearmed(tx, receipt) ==
  /\ MacroTurn
  /\ poll[tx].state = "armed"
  /\ transactions' = UpdateTransactionReceipt(transactions, tx,
                        GasCostETH(receipt.gasUsed, receipt.gasPrice),
                        receipt.blockNumber,
                        IF receipt.status THEN "completed" ELSE "failed")
  /\ events' = Broadcast(events, "transaction_receipt", tx, transactions[tx].walletAddress)
  /\ poll' = [poll EXCEPT ![tx].queries = @ + 1, ![tx].writes = 1, ![tx].got = receipt]
  /\ UNCHANGED <<activeSweeps, sw, walletConfigs, activities,
                 currentNetworkLoad, manual, sampled, detectorVars, trading>>

\* lines 583-613: a receipt arrives: one update, one event, no re-arming
PollReceipt(tx, receipt) ==
  /\ MacroTurn
  /\ poll[tx].state = "armed"
  /\ transactions' = UpdateTransactionReceipt(transactions, tx,
                        GasCostETH(receipt.gasUsed, receipt.gasPrice),
                        receipt.blockNumber,
                        IF receipt.status THEN "completed" ELSE "failed")
  /\ events' = Broadcast(events, "transaction_receipt", tx, transactions[tx].walletAddress)
  /\ poll' = [poll EXCEPT ![tx].state = "stopped", ![tx].queries = @ + 1,
                          ![tx].writes = @ + 1, ![tx].got = receipt]
  /\ UNCHANGED <<activeSweeps, sw, walletConfigs, activities,
                 currentNetworkLoad, manual, sampled, detectorVars, trading>>

\* the bound of line 616 off by one
PollNoReceiptOffByOne(tx) ==
  /\ MacroTurn
  /\ poll[tx].state = "armed"
  /\ poll' = [poll EXCEPT ![tx].attempts = @ + 1, ![tx].queries = @ + 1,
                          ![tx].state = IF poll[tx].attempts + 1 <= maxAttempts
                                        THEN "armed" ELSE "stopped"]
  /\ UNCHANGED <<activeSweeps, sw, walletConfigs, transactions, activities, events,
                 currentNetworkLoad, manual, sampled, detectorVars, trading>>

\* lines 583 and 615-620: no receipt yet: count, re-arm below the bound
PollNoReceipt(tx) ==
  /\ MacroTurn
  /\ poll[tx].state = "armed"
  /\ poll' = [poll EXCEPT ![tx].attempts = @ + 1, ![tx].queries = @ + 1,
                          ![tx].state = IF poll[tx].attempts + 1 < maxAttempts
                                        THEN "armed" ELSE "stopped"]
  /\ UNCHANGED <<activeSweeps, sw, walletConfigs, transactions, activities, events,
                 currentNetworkLoad, manual, sampled, detectorVars, trading>>

\* lines 583 and 621-623: getTransactionReceipt throws: logged, not re-armed
PollThrows(tx) ==
  /\ MacroTurn
  /\ poll[tx].state = "armed"
  /\ poll' = [poll EXCEPT ![tx].state = "stopped", ![tx].queries = @ + 1]
  /\ UNCHANGED <<activeSweeps, sw, walletConfigs, transactions, activities, events,
                 currentNetworkLoad, manual, sampled, detectorVars, trading>>

(***************************************************************************)
(* TokenSweeper.emergencyStop                                              *)
(***************************************************************************)
\* lines 655-667: the keys that stay after emergencyStop(walletAddress)
KeysAfterStop(locks, w) == {k \in locks : ~StartsWith(k, w)}

\* lines 670-681: getActiveSweepCount(walletAddress)
GetActiveSweepCount(locks, w) == Cardinality({k \in locks : StartsWith(k, w)})

\* how many emergency_stop events were broadcast (the model bounds the number
\* of emergency stop requests by MaxStops)
EventCount(type) ==
  LET es == {e \in BagToSet(events) : e.type = type}
      RECURSIVE Sum(_)
      Sum(S) == IF S = {} THEN 0
                ELSE LET e == CHOOSE x \in S : TRUE
                     IN CopiesIn(e, events) + Sum(S \ {e})
  IN Sum(es)

\* updateWalletConfig(walletAddress, {isActive}): undefined when none is stored
UpdateWalletConfigActive(configs, w, active) ==
  IF w \in DOMAIN configs /\ configs[w].exists
  THEN [configs EXCEPT ![w].isActive = active]
  ELSE configs

RECURSIVE DeactivateAll(_, _)
DeactivateAll(configs, ws) ==
  IF ws = {} THEN configs
  ELSE LET w == CHOOSE x \in ws : TRUE
       IN DeactivateAll(UpdateWalletConfigActive(configs, w, FALSE), ws \ {w})

\* POST /api/emergency/stop with a wallet: stopMonitoring, emergencyStop(wallet),
\* updateWalletConfig, broadcast. None of the three awaits waits for the ledger.
EmergencyStopRoute(w) ==
  /\ MacroTurn
  /\ EventCount("emergency_stop") < MaxStops
  /\ monitoringWallets' = monitoringWallets \ {ToLowerCase(w)}
  /\ activeSweeps' = KeysAfterStop(activeSweeps, w)
  /\ walletConfigs' = UpdateWalletConfigActive(walletConfigs, w, FALSE)
  /\ events' = Broadcast(events, "emergency_stop", 0, w)
  /\ UNCHANGED <<sw, poll, transactions, activities, currentNetworkLoad, manual, sampled, timers,
                 specificTokensToMonitor, knownTokens, tokenDetections, scan, trading>>

\* POST /api/emergency/stop without a wallet: every wallet of
\* getMonitoredWallets() is stopped and its configuration, looked up under the
\* monitored (lower-case) address, deactivated; then activeSweeps.clear()
EmergencyStopRouteAll ==
  /\ MacroTurn
  /\ EventCount("emergency_stop") < MaxStops
  /\ monitoringWallets' = {}
  /\ walletConfigs' = DeactivateAll(walletConfigs, monitoringWallets)
  /\ activeSweeps' = {}
  /\ events' = Broadcast(events, "emergency_stop", 0, <<>>)
  /\ UNCHANGED <<sw, poll, transactions, activities, currentNetworkLoad, manual, sampled, timers,
                 specificTokensToMonitor, knownTokens, tokenDetections, scan, trading>>

(***************************************************************************)
(* TokenDetector. A detector task is one run of startMonitoring, of the    *)
(* timer callback of schedulePeriodicScan, or of                           *)
(* addAndMonitorSpecificToken. Its actions run from one answer of the      *)
(* ledger to the next ledger call: the storage awaits in between resume as *)
(* microtasks, before any other task can run.                              *)
(***************************************************************************)
IdleScan ==
  [pc |-> "idle", kind |-> "none", wallet |-> <<>>, phase |-> "none", todo |-> <<>>,
   existing |-> <<>>, idx |-> 0, token |-> <<>>, bal |-> 0, det |-> 0,
   detFlag |-> FALSE, child |-> 0]

ScanFree == \E s \in ScanIds : scan[s].pc = "idle"
FreeScan == CHOOSE s \in ScanIds : scan[s].pc = "idle" /\ \A r \in 1..(s-1) : scan[r].pc # "idle"

\* line 240-243: the detections of the wallet as scanWalletForTokens reads
\* them once, before its loop
Snapshot(dets, w) ==
  LET ids == GetTokenDetections(dets, w)
  IN [k \in 1..Len(ids) |-> [id |-> ids[k], token |-> ToLowerCase(dets[ids[k]].tokenAddress),
                             balance |-> dets[ids[k]].balance,
                             tradingEnabled |-> dets[ids[k]].tradingEnabled]]

\* lines 238-248: scanWalletForTokens up to its first getTokenBalance
CatalogTask(w, kind) ==
  [IdleScan EXCEPT !.pc = "balance", !.kind = kind, !.wallet = w, !.phase = "catalog",
                   !.todo = knownTokens, !.existing = Snapshot(tokenDetections, w),
                   !.token = Head(knownTokens)]

\* addSpecificTokenToMonitor comparing and storing the address as it is given
AddSpecificTokenAsGiven(list, t) ==
  IF \E k \in 1..Len(list) : list[k] = t THEN list
  ELSE Append(list, t)

\* lines 28-35: addSpecificTokenToMonitor
AddSpecificToken(list, t) ==
  IF \E k \in 1..Len(list) : list[k] = ToLowerCase(t) THEN list
  ELSE Append(list, ToLowerCase(t))

\* lines 38-46: removeSpecificTokenFromMonitor (indexOf and splice)
RemoveSpecificToken(list, t) ==
  LET hits == {k \in 1..Len(list) : list[k] = ToLowerCase(t)}
  IN IF hits = {} THEN list
     ELSE LET k == CHOOSE x \in hits : \A y \in hits : x <= y
          IN SubSeq(list, 1, k - 1) \o SubSeq(list, k + 1, Len(list))

\* this.knownTokens.set(token, info): a new key goes last
SetKnownToken(known, t) ==
  IF \E k \in 1..Len(known) : known[k] = t THEN known ELSE Append(known, t)

IsKnownToken(known, t) == \E k \in 1..Len(known) : known[k] = t

\* lines 125-146: scanSpecificTokens at position k of the live watch-list
\* (for...of reads the array again at every step)
WatchTask(rec, k) ==
  LET list == specificTokensToMonitor[rec.wallet]
  IN IF k > Len(list) THEN IdleScan
     ELSE [rec EXCEPT !.phase = "specific", !.idx = k, !.token = list[k],
                      !.pc = IF IsKnownToken(knownTokens, list[k]) THEN "balance" ELSE "info",
                      !.todo = <<>>, !.existing = <<>>, !.bal = 0, !.det = 0,
                      !.detFlag = FALSE, !.child = 0]

\* the loop of scanWalletForTokens goes to its next token; after the last
\* one startMonitoring arms the timer (line 100) and its caller, the route
\* POST /api/wallet/config or PATCH /api/wallet/:address/config, publishes
\* wallet_configured or wallet_config_updated; the timer callback goes on
\* with scanSpecificTokens (line 118)
NextCatalog(s) ==
  LET rest == Tail(scan[s].todo)
  IN IF rest # <<>>
     THEN /\ scan' = [scan EXCEPT ![s] = [@ EXCEPT !.todo = rest, !.token = Head(rest),
                                             !.pc = "balance", !.bal = 0, !.child = 0]]
          /\ timers' = timers
          /\ events' = events
     ELSE IF scan[s].kind = "start"
     THEN /\ scan' = [scan EXCEPT ![s] = IdleScan]
          /\ timers' = [timers EXCEPT ![scan[s].wallet] = @ + 1]
          /\ events' = Broadcast(events, "wallet_configured", 0, <<>>)
     ELSE IF scan[s].kind = "patch"
     THEN /\ scan' = [scan EXCEPT ![s] = IdleScan]
          /\ timers' = [timers EXCEPT ![scan[s].wallet] = @ + 1]
          /\ events' = Broadcast(events, "wallet_config_updated", 0, scan[s].wallet)
     ELSE /\ scan' = [scan EXCEPT ![s] = WatchTask(scan[s], 1)]
          /\ timers' = timers
          /\ events' = events

\* the loop of scanSpecificTokens goes to its next token
NextWatch(s) ==
  /\ scan' = [scan EXCEPT ![s] = WatchTask(scan[s], scan[s].idx + 1)]
  /\ timers' = timers

\* addAndMonitorSpecificToken returns ok to its caller, the route POST
\* /api/wallet/:address/tokens/monitor, which publishes
\* token_monitoring_added when ok is true
ProbeReturn(s, ok) ==
  /\ scan' = [scan EXCEPT ![s] = IdleScan]
  /\ events' = IF ok THEN Broadcast(events, "token_monitoring_added", 0, scan[s].wallet)
                ELSE events

\* the task goes on after the sweepToken call it awaited
NextToken(s) ==
  IF scan[s].kind = "probe"
  THEN ProbeReturn(s, sw[scan[s].child].result # -1) /\ timers' = timers
  ELSE IF scan[s].phase = "catalog" THEN NextCatalog(s)
  ELSE NextWatch(s) /\ events' = events

\* a detector task calls sweepToken and awaits it
CallSweep(s, t, b, src) ==
  /\ SweepIdFree
  /\ LET e == SweepEntry(scan[s].wallet, t, b, "high", src)
     IN /\ sw' = [sw EXCEPT ![NextSweepId] = e.rec]
        /\ activeSweeps' = e.locks
  /\ scan' = [scan EXCEPT ![s].pc = "sweeping", ![s].child = NextSweepId]
  /\ timers' = timers

\* the startMonitoring calls of wallet w that have not yet armed their timer
StartsInFlight(w) ==
  {s \in ScanIds : scan[s].kind \in {"start", "patch"} /\ scan[s].wallet = w}

\* POST /api/wallet/config: createWalletConfig, then startMonitoring (lines
\* 92-97) up to the first getTokenBalance of the initial scan
ConfigRoute(w, cfg) ==
  /\ MacroTurn
  /\ ScanFree
  /\ timers[w] + Cardinality(StartsInFlight(w)) < MaxTimers
  /\ walletConfigs' = [x \in DOMAIN walletConfigs \cup {w} |->
                         IF x = w THEN cfg ELSE walletConfigs[x]]
  /\ monitoringWallets' = monitoringWallets \cup {ToLowerCase(w)}
  /\ scan' = [scan EXCEPT ![FreeScan] = CatalogTask(w, "start")]
  /\ UNCHANGED <<sweeperVars, currentNetworkLoad, manual, sampled, timers, specificTokensToMonitor,
                 knownTokens, tokenDetections, trading>>

\* PATCH /api/wallet/:address/config with {isActive}: updateWalletConfig, then
\* startMonitoring up to the first getTokenBalance of its scan, or
\* stopMonitoring and the broadcast of wallet_config_updated; 404 when no
\* configuration is stored
PatchRoute(w, active) ==
  /\ MacroTurn
  /\ GetWalletConfig(walletConfigs, w).exists
  /\ EventCount("wallet_config_updated")
       + Cardinality({s \in ScanIds : scan[s].kind = "patch"}) < MaxPatches
  /\ walletConfigs' = UpdateWalletConfigActive(walletConfigs, w, active)
  /\ IF active
     THEN /\ ScanFree
          /\ timers[w] + Cardinality(StartsInFlight(w)) < MaxTimers
          /\ monitoringWallets' = monitoringWallets \cup {ToLowerCase(w)}
          /\ scan' = [scan EXCEPT ![FreeScan] = CatalogTask(w, "patch")]
          /\ events' = events
     ELSE /\ monitoringWallets' = monitoringWallets \ {ToLowerCase(w)}
          /\ scan' = scan
          /\ events' = Broadcast(events, "wallet_config_updated", 0, w)
  /\ UNCHANGED <<activeSweeps, sw, poll, transactions, activities,
                 currentNetworkLoad, manual, sampled, timers, specificTokensToMonitor, knownTokens,
                 tokenDetections, trading>>

\* the timer callback without the check of line 110
TickNoCheck(w) ==
  /\ MacroTurn
  /\ timers[w] > 0
  /\ ScanFree
  /\ scan' = [scan EXCEPT ![FreeScan] = CatalogTask(w, "tick")]
  /\ UNCHANGED <<sweeperVars, walletConfigs, currentNetworkLoad, manual, sampled, monitoringWallets,
                 timers, specificTokensToMonitor, knownTokens, tokenDetections, trading>>

\* a timer callback that waits until no other scan is in progress
TickSerial(w) ==
  /\ MacroTurn
  /\ timers[w] > 0
  /\ \A s \in ScanIds : scan[s].pc = "idle"
  /\ IF ToLowerCase(w) \notin monitoringWallets
     THEN /\ timers' = [timers EXCEPT ![w] = @ - 1]
          /\ scan' = scan
     ELSE /\ ScanFree
          /\ scan' = [scan EXCEPT ![FreeScan] = CatalogTask(w, "tick")]
          /\ timers' = timers
  /\ UNCHANGED <<sweeperVars, walletConfigs, currentNetworkLoad, manual, sampled, monitoringWallets,
                 specificTokensToMonitor, knownTokens, tokenDetections, trading>>

\* lines 109-118: a tick of an armed timer
Tick(w) ==
  /\ MacroTurn
  /\ timers[w] > 0
  /\ IF ToLowerCase(w) \notin monitoringWallets
     THEN /\ timers' = [timers EXCEPT ![w] = @ - 1]
          /\ scan' = scan
     ELSE /\ ScanFree
          /\ scan' = [scan EXCEPT ![FreeScan] = CatalogTask(w, "tick")]
          /\ timers' = timers
  /\ UNCHANGED <<sweeperVars, walletConfigs, currentNetworkLoad, manual, sampled, monitoringWallets,
                 specificTokensToMonitor, knownTokens, tokenDetections, trading>>

\* the scan without the test balanceNum > 0 of line 251
ScanBalanceNoGuard(s, b) ==
  /\ MacroTurn
  /\ scan[s].pc = "balance" /\ scan[s].phase = "catalog"
  /\ IF b < 0
     THEN NextCatalog(s) /\ UNCHANGED <<tokenDetections, activities>>
     ELSE LET w == scan[s].wallet
              t == scan[s].token
              ex == SelectSeq(scan[s].existing, LAMBDA e: e.token = t)
          IN /\ tokenDetections' =
                  IF ex = <<>> THEN CreateTokenDetection(tokenDetections, NewTokenDetection(w, t, b))
                  ELSE IF ex[1].balance # b
                  THEN UpdateTokenDetection(tokenDetections, ex[1].id,
                          [balance |-> b, balanceUSD |-> b * MockPrice(t)])
                  ELSE tokenDetections
             /\ activities' =
                  IF ex = <<>> THEN CreateActivity(activities, w, "token_detected", "completed")
                  ELSE activities
             /\ scan' = [scan EXCEPT ![s].pc = "trading", ![s].bal = b]
             /\ timers' = timers
             /\ events' = events
  /\ UNCHANGED <<activeSweeps, sw, poll, walletConfigs, transactions,
                 currentNetworkLoad, manual, sampled, monitoringWallets, specificTokensToMonitor,
                 knownTokens, trading>>

\* a tick that a failed getTokenBalance ends, as without the try of line 247
ScanBalanceAbort(s, b) ==
  /\ MacroTurn
  /\ scan[s].pc = "balance" /\ scan[s].phase = "catalog"
  /\ IF b < 0 /\ scan[s].kind = "tick"
     THEN /\ scan' = [scan EXCEPT ![s] = IdleScan]
          /\ UNCHANGED <<timers, events, tokenDetections, activities>>
     ELSE IF b <= 0
     THEN NextCatalog(s) /\ UNCHANGED <<tokenDetections, activities>>
     ELSE LET w == scan[s].wallet
              t == scan[s].token
              ex == SelectSeq(scan[s].existing, LAMBDA e: e.token = t)
          IN /\ tokenDetections' =
                  IF ex = <<>> THEN CreateTokenDetection(tokenDetections, NewTokenDetection(w, t, b))
                  ELSE IF ex[1].balance # b
                  THEN UpdateTokenDetection(tokenDetections, ex[1].id,
                          [balance |-> b, balanceUSD |-> b * MockPrice(t)])
                  ELSE tokenDetections
             /\ activities' =
                  IF ex = <<>> THEN CreateActivity(activities, w, "token_detected", "completed")
                  ELSE activities
             /\ scan' = [scan EXCEPT ![s].pc = "trading", ![s].bal = b]
             /\ timers' = timers
             /\ events' = events
  /\ UNCHANGED <<activeSweeps, sw, poll, walletConfigs, transactions,
                 currentNetworkLoad, manual, sampled, monitoringWallets, specificTokensToMonitor,
                 knownTokens, trading>>

\* lines 248-276: getTokenBalance answers b (-1: it throws) in
\* scanWalletForTokens; a new detection is created or the balance of the one
\* read before the loop is updated; then isContractTradingEnabled is called
ScanBalance(s, b) ==
  /\ MacroTurn
  /\ scan[s].pc = "balance" /\ scan[s].phase = "catalog"
  /\ IF b <= 0
     THEN NextCatalog(s) /\ UNCHANGED <<tokenDetections, activities>>
     ELSE LET w == scan[s].wallet
              t == scan[s].token
              ex == SelectSeq(scan[s].existing, LAMBDA e: e.token = t)
          IN /\ tokenDetections' =
                  IF ex = <<>> THEN CreateTokenDetection(tokenDetections, NewTokenDetection(w, t, b))
                  ELSE IF ex[1].balance # b
                  THEN UpdateTokenDetection(tokenDetections, ex[1].id,
                          [balance |-> b, balanceUSD |-> b * MockPrice(t)])
                  ELSE tokenDetections
             /\ activities' =
                  IF ex = <<>> THEN CreateActivity(activities, w, "token_detected", "completed")
                  ELSE activities
             /\ scan' = [scan EXCEPT ![s].pc = "trading", ![s].bal = b]
             /\ timers' = timers
             /\ events' = events
  /\ UNCHANGED <<activeSweeps, sw, poll, walletConfigs, transactions,
                 currentNetworkLoad, manual, sampled, monitoringWallets, specificTokensToMonitor,
                 knownTokens, trading>>

\* lines 325-355: checkTradingStatus from the answer of
\* isContractTradingEnabled to the call of getTokenBalance
ScanTrading(s) ==
  /\ MacroTurn
  /\ scan[s].pc = "trading" /\ scan[s].phase = "catalog"
  /\ LET w == scan[s].wallet
         t == scan[s].token
         d == FindDetection(tokenDetections, w, ToLowerCase(t))
     IN IF d # 0 /\ ~tokenDetections[d].tradingEnabled /\ trading[t]
        THEN /\ tokenDetections' = UpdateTokenDetection(tokenDetections, d,
                                                        [tradingEnabled |-> TRUE])
             /\ activities' = CreateActivity(activities, w, "trading_enabled", "active")
             /\ IF GetWalletConfig(walletConfigs, w).autoSweepEnabled
                THEN /\ scan' = [scan EXCEPT ![s].pc = "sweepBalance"]
                     /\ UNCHANGED <<timers, events>>
                ELSE NextCatalog(s)
        ELSE NextCatalog(s) /\ UNCHANGED <<tokenDetections, activities>>
  /\ UNCHANGED <<activeSweeps, sw, poll, walletConfigs, transactions,
                 currentNetworkLoad, manual, sampled, monitoringWallets, specificTokensToMonitor,
                 knownTokens, trading>>

\* checkTradingStatus calling sweepToken with the balance of the stored
\* detection instead of the answer of line 355
ScanSweepBalanceStored(s, b) ==
  /\ MacroTurn
  /\ scan[s].pc = "sweepBalance"
  /\ IF b < 0
     THEN NextCatalog(s) /\ UNCHANGED <<activeSweeps, sw>>
     ELSE LET d == FindDetection(tokenDetections, scan[s].wallet, ToLowerCase(scan[s].token))
          IN CallSweep(s, scan[s].token, tokenDetections[d].balance, "catalog")
               /\ events' = events
  /\ UNCHANGED <<poll, walletConfigs, transactions, activities,
                 currentNetworkLoad, manual, sampled, monitoringWallets, specificTokensToMonitor,
                 knownTokens, tokenDetections, trading>>

\* lines 355-365: getTokenBalance answers b (-1: it throws, caught at line
\* 368); sweepToken is called with that balance
ScanSweepBalance(s, b) ==
  /\ MacroTurn
  /\ scan[s].pc = "sweepBalance"
  /\ IF b < 0
     THEN NextCatalog(s) /\ UNCHANGED <<activeSweeps, sw>>
     ELSE CallSweep(s, scan[s].token, b, "catalog") /\ events' = events
  /\ UNCHANGED <<poll, walletConfigs, transactions, activities,
                 currentNetworkLoad, manual, sampled, monitoringWallets, specificTokensToMonitor,
                 knownTokens, tokenDetections, trading>>

\* the sweepToken call a task awaits has returned (lines 358, 216, 422)
ScanSweepReturned(s) ==
  /\ scan[s].pc = "sweeping"
  /\ sw[scan[s].child].pc = "done"
  /\ NextToken(s)
  /\ UNCHANGED <<activeSweeps, sw, poll, transactions, activities, walletConfigs,
                 currentNetworkLoad, manual, sampled, monitoringWallets, specificTokensToMonitor,
                 knownTokens, tokenDetections, trading>>

\* lines 136-146: getTokenInfo answers in scanSpecificTokens (ok = FALSE: it
\* throws, caught at line 232)
WatchInfo(s, ok) ==
  /\ MacroTurn
  /\ scan[s].pc = "info" /\ scan[s].phase = "specific"
  /\ IF ok
     THEN /\ knownTokens' = SetKnownToken(knownTokens, scan[s].token)
          /\ scan' = [scan EXCEPT ![s].pc = "balance"]
          /\ timers' = timers
     ELSE NextWatch(s) /\ UNCHANGED knownTokens
  /\ UNCHANGED <<sweeperVars, walletConfigs, currentNetworkLoad, manual, sampled, monitoringWallets,
                 specificTokensToMonitor, tokenDetections, trading>>

\* lines 146-175: getTokenBalance answers b in scanSpecificTokens; the
\* detection is created or its balance updated; isContractTradingEnabled is
\* called
WatchBalance(s, b) ==
  /\ MacroTurn
  /\ scan[s].pc = "balance" /\ scan[s].phase = "specific"
  /\ IF b <= 0
     THEN NextWatch(s) /\ UNCHANGED <<tokenDetections, activities>>
     ELSE LET w == scan[s].wallet
              t == scan[s].token
              d == FindDetection(tokenDetections, w, t)
          IN /\ tokenDetections' =
                  IF d = 0 THEN CreateTokenDetection(tokenDetections, NewTokenDetection(w, t, b))
                  ELSE UpdateTokenDetection(tokenDetections, d,
                          [balance |-> b, balanceUSD |-> b * MockPrice(t)])
             /\ activities' =
                  IF d = 0 THEN CreateActivity(activities, w, "token_detected", "completed")
                  ELSE activities
             /\ scan' = [scan EXCEPT ![s].pc = "trading", ![s].bal = b,
                           ![s].det = IF d = 0 THEN FindDetection(tokenDetections', w, t) ELSE d,
                           ![s].detFlag = IF d = 0 THEN FALSE
                                          ELSE tokenDetections[d].tradingEnabled]
             /\ timers' = timers
  /\ UNCHANGED <<activeSweeps, sw, poll, walletConfigs, transactions, events,
                 currentNetworkLoad, manual, sampled, monitoringWallets, specificTokensToMonitor,
                 knownTokens, trading>>

\* lines 175-230: the answer of isContractTradingEnabled in scanSpecificTokens
WatchTrading(s) ==
  /\ MacroTurn
  /\ scan[s].pc = "trading" /\ scan[s].phase = "specific"
  /\ LET w == scan[s].wallet
         t == scan[s].token
     IN IF scan[s].det # 0 /\ ~scan[s].detFlag /\ trading[t]
        THEN /\ tokenDetections' = UpdateTokenDetection(tokenDetections, scan[s].det,
                                                        [tradingEnabled |-> TRUE])
             /\ activities' = CreateActivity(activities, w, "trading_enabled", "active")
             /\ events' = Broadcast(events, "trading_enabled", 0, w)
             /\ IF GetWalletConfig(walletConfigs, w).autoSweepEnabled
                THEN CallSweep(s, t, scan[s].bal, "watch")
                ELSE NextWatch(s) /\ UNCHANGED <<activeSweeps, sw>>
        ELSE /\ NextWatch(s)
             /\ UNCHANGED <<tokenDetections, activities, events, activeSweeps, sw>>
  /\ UNCHANGED <<poll, walletConfigs, transactions, currentNetworkLoad, manual, sampled,
                 monitoringWallets, specificTokensToMonitor, knownTokens, trading>>

\* lines 379-387: addAndMonitorSpecificToken up to getTokenInfo
AddAndMonitor(w, t) ==
  /\ MacroTurn
  /\ ScanFree
  /\ EventCount("token_monitoring_added")
       + Cardinality({s \in ScanIds : scan[s].kind = "probe"}) < MaxProbes
  /\ specificTokensToMonitor' =
       [specificTokensToMonitor EXCEPT ![w] = AddSpecificToken(@, t)]
  /\ scan' = [scan EXCEPT ![FreeScan] =
                [IdleScan EXCEPT !.pc = "info", !.kind = "probe", !.wallet = w,
                                 !.phase = "probe", !.token = t]]
  /\ UNCHANGED <<sweeperVars, walletConfigs, currentNetworkLoad, manual, sampled, monitoringWallets,
                 timers, knownTokens, tokenDetections, trading>>

\* lines 387-393: getTokenInfo answers (ok = FALSE: it throws, line 440)
ProbeInfo(s, ok) ==
  /\ MacroTurn
  /\ scan[s].pc = "info" /\ scan[s].phase = "probe"
  /\ IF ok
     THEN /\ knownTokens' = SetKnownToken(knownTokens, ToLowerCase(scan[s].token))
          /\ scan' = [scan EXCEPT ![s].pc = "balance"]
          /\ events' = events
     ELSE /\ ProbeReturn(s, FALSE)
          /\ UNCHANGED knownTokens
  /\ UNCHANGED <<activeSweeps, sw, poll, transactions, activities, walletConfigs,
                 currentNetworkLoad, manual, sampled, monitoringWallets, timers,
                 specificTokensToMonitor, tokenDetections, trading>>

\* lines 393-414: getTokenBalance answers b; a detection is created when the
\* wallet has none for the token; isContractTradingEnabled is called
ProbeBalance(s, b) ==
  /\ MacroTurn
  /\ scan[s].pc = "balance" /\ scan[s].phase = "probe"
  /\ IF b <= 0
     THEN /\ ProbeReturn(s, FALSE)
          /\ UNCHANGED <<tokenDetections, activities>>
     ELSE LET w == scan[s].wallet
              t == scan[s].token
              d == FindDetection(tokenDetections, w, ToLowerCase(t))
          IN /\ tokenDetections' =
                  IF d = 0 THEN CreateTokenDetection(tokenDetections, NewTokenDetection(w, t, b))
                  ELSE tokenDetections
             /\ activities' =
                  IF d = 0 THEN CreateActivity(activities, w, "token_detected", "completed")
                  ELSE activities
             /\ scan' = [scan EXCEPT ![s].pc = "trading", ![s].bal = b]
             /\ events' = events
  /\ UNCHANGED <<activeSweeps, sw, poll, walletConfigs, transactions,
                 currentNetworkLoad, manual, sampled, monitoringWallets, timers, specificTokensToMonitor,
                 knownTokens, trading>>

\* the probe without the test of autoSweepEnabled of line 421
ProbeTradingNoAutoCheck(s) ==
  /\ MacroTurn
  /\ scan[s].pc = "trading" /\ scan[s].phase = "probe"
  /\ IF trading[ToLowerCase(scan[s].token)]
     THEN CallSweep(s, scan[s].token, scan[s].bal, "probe") /\ events' = events
     ELSE /\ ProbeReturn(s, TRUE)
          /\ UNCHANGED <<activeSweeps, sw, timers>>
  /\ UNCHANGED <<poll, walletConfigs, transactions, activities,
                 currentNetworkLoad, manual, sampled, monitoringWallets, specificTokensToMonitor,
                 knownTokens, tokenDetections, trading>>

\* lines 414-435: the answer of isContractTradingEnabled in
\* addAndMonitorSpecificToken
ProbeTrading(s) ==
  /\ MacroTurn
  /\ scan[s].pc = "trading" /\ scan[s].phase = "probe"
  /\ IF trading[ToLowerCase(scan[s].token)]
        /\ GetWalletConfig(walletConfigs, scan[s].wallet).autoSweepEnabled
     THEN CallSweep(s, scan[s].token, scan[s].bal, "probe") /\ events' = events
     ELSE /\ ProbeReturn(s, TRUE)
          /\ UNCHANGED <<activeSweeps, sw, timers>>
  /\ UNCHANGED <<poll, walletConfigs, transactions, activities,
                 currentNetworkLoad, manual, sampled, monitoringWallets, specificTokensToMonitor,
                 knownTokens, tokenDetections, trading>>

\* the route deleting the detections of the token with its watch-list entry
DeregisterRouteForgets(w, t) ==
  /\ MacroTurn
  /\ EventCount("token_monitoring_removed") < MaxRemovals
  /\ specificTokensToMonitor' =
       [specificTokensToMonitor EXCEPT ![w] = RemoveSpecificToken(@, t)]
  /\ tokenDetections' =
       SelectSeq(tokenDetections,
                 LAMBDA d: ~(d.walletAddress = w
                             /\ ToLowerCase(d.tokenAddress) = ToLowerCase(t)))
  /\ events' = Broadcast(events, "token_monitoring_removed", 0, w)
  /\ UNCHANGED <<activeSweeps, sw, poll, transactions, activities, walletConfigs,
                 currentNetworkLoad, manual, sampled, monitoringWallets, timers, knownTokens,
                 scan, trading>>

\* DELETE /api/wallet/:address/tokens/:tokenAddress/monitor
DeregisterRoute(w, t) ==
  /\ MacroTurn
  /\ EventCount("token_monitoring_removed") < MaxRemovals
  /\ specificTokensToMonitor' =
       [specificTokensToMonitor EXCEPT ![w] = RemoveSpecificToken(@, t)]
  /\ events' = Broadcast(events, "token_monitoring_removed", 0, w)
  /\ UNCHANGED <<activeSweeps, sw, poll, transactions, activities, walletConfigs,
                 currentNetworkLoad, manual, sampled, monitoringWallets, timers, knownTokens,
                 tokenDetections, scan, trading>>

\* PATCH /api/wallet/:address/config with { autoSweepEnabled }: updateWalletConfig
\* and the broadcast; isActive is not given, so monitoring is left as it is
PatchAutoSweepRoute(w, auto) ==
  /\ MacroTurn
  /\ GetWalletConfig(walletConfigs, w).exists
  /\ EventCount("wallet_config_updated")
       + Cardinality({s \in ScanIds : scan[s].kind = "patch"}) < MaxPatches
  /\ walletConfigs' = [walletConfigs EXCEPT ![w].autoSweepEnabled = auto]
  /\ events' = Broadcast(events, "wallet_config_updated", 0, w)
  /\ UNCHANGED <<activeSweeps, sw, poll, transactions, activities,
                 currentNetworkLoad, manual, sampled, detectorVars, trading>>

\* the ledger: the transferability of a token becomes true, and stays true
EnableTrading(t) ==
  /\ MacroTurn
  /\ ~trading[t]
  /\ trading' = [trading EXCEPT ![t] = TRUE]
  /\ UNCHANGED <<sweeperVars, walletConfigs, currentNetworkLoad, manual, sampled, detectorVars>>

(***************************************************************************)
(* The manual sweep: the route of part_001 and TokenDetector.manualSweepToken *)
(***************************************************************************)
NoManual ==
  [op |-> "none", wallet |-> <<>>, token |-> <<>>, outcome |-> "none"]

\* tokens.find(t => t.tokenAddress.toLowerCase() === tokenAddress.toLowerCase())
\* on getTokenDetections(address): the id found, 0 when there is none
FindToken(dets, w, t) == FindDetection(dets, w, ToLowerCase(t))

\* POST /api/wallet/:address/tokens/:tokenAddress/sweep up to the await of
\* sweepToken: 404 without a detection, else sweepToken with the address as the
\* request spells it, the stored balance and the urgency of the body
ManualSweepRoute(w, t, u) ==
  /\ MacroTurn
  /\ LET id == FindToken(tokenDetections, w, t)
     IN IF id = 0
        THEN /\ manual' = [op |-> "route", wallet |-> w, token |-> t,
                           outcome |-> "not_found"]
             /\ UNCHANGED <<activeSweeps, sw>>
        ELSE /\ SweepIdFree
             /\ LET e == SweepEntry(w, t, tokenDetections[id].balance, u, "manual")
                IN /\ sw' = [sw EXCEPT ![NextSweepId] = e.rec]
                   /\ activeSweeps' = e.locks
             /\ manual' = [op |-> "route", wallet |-> w, token |-> t,
                           outcome |-> "invoked"]
  /\ UNCHANGED <<poll, walletConfigs, transactions, activities, events,
                 currentNetworkLoad, sampled, detectorVars, trading>>

\* TokenDetector.manualSweepToken: with a detection it calls
\* this.triggerAutoSweep, which the class does not define, so the call throws
\* a TypeError and the promise rejects; without one it returns
ManualSweepToken(w, t) ==
  /\ MacroTurn
  /\ manual' = [op |-> "method", wallet |-> w, token |-> t,
                outcome |-> IF FindToken(tokenDetections, w, t) # 0
                            THEN "threw" ELSE "returned"]
  /\ UNCHANGED <<sweeperVars, walletConfigs, currentNetworkLoad, sampled, detectorVars,
                 trading>>

(***************************************************************************)
(* Initial state: the module-level singletons after construction           *)
(***************************************************************************)

InitEngine ==
  /\ activeSweeps = {}
  /\ sw = [i \in SweepIds |-> IdleSweep]
  /\ poll = [tx \in SweepIds |-> NoPoller]
  /\ transactions = <<>>
  /\ activities = EmptyBag
  /\ events = EmptyBag
  /\ currentNetworkLoad = 0
  /\ manual = NoManual
  /\ sampled = -1
  /\ monitoringWallets = {}
  /\ timers = [w \in Wallets |-> 0]
  /\ specificTokensToMonitor = [w \in Wallets |-> <<>>]
  /\ knownTokens = <<TCat>>
  /\ tokenDetections = <<>>
  /\ scan = [s \in ScanIds |-> IdleScan]

(***************************************************************************)
(* SpecSweep: sweepToken called any number of times, with the pollers it   *)
(* starts. The wallet configurations are the ones storage may hold.        *)
(***************************************************************************)
MinAmounts == {0, 2}
SweepConfigs ==
  {NoConfig} \cup {WalletConfig(a, TRUE, m, "standard") : a \in BOOLEAN, m \in MinAmounts}
SweepWallets == {W1}
SweepTokens == {TCat, TCatUpper}
SweepBalances == 1..MaxBal
SweepUrgencies == {"high"}
BaseFees == {30}

InitSweep ==
  /\ InitEngine
  /\ walletConfigs \in [SweepWallets -> SweepConfigs]
  /\ trading = [t \in {TCat, TNew} |-> FALSE]

\* the steps of invocation i
SweepStepsOf(i) ==
  \/ SweepConfig(i)
  \/ SweepThreshold(i)
  \/ \E base \in BaseFees : SweepCreateTransaction(i, base)
  \/ SweepLogStarted(i)
  \/ SweepSubmit(i)
  \/ SweepTransferred(i)
  \/ SweepTransferFailed(i)
  \/ SweepLogCompleted(i)
  \/ SweepFinish(i)
  \/ SweepCatchMark(i)
  \/ SweepCatchLog(i)
  \/ SweepCatchFinish(i)

SweepSteps == \E i \in SweepIds : SweepStepsOf(i)

SweepCalls ==
  \E w \in SweepWallets, t \in SweepTokens, b \in SweepBalances, u \in SweepUrgencies :
     SweepToken(w, t, b, u)

PollSteps ==
  \E tx \in SweepIds :
     \/ \E r \in Receipts : PollReceipt(tx, r)
     \/ PollThrows(tx)

NextSweep == SweepCalls \/ SweepSteps \/ PollSteps

SpecSweep == InitSweep /\ [][NextSweep]_vars

\* SpecPersist: SpecSweep with a storage that may reject a call of the catch block
NextPersist == NextSweep \/ \E i \in SweepIds : SweepCatchThrows(i)

SpecPersist == InitSweep /\ [][NextPersist]_vars

(***************************************************************************)
(* SpecPoll: sweeps of one wallet and asset until one is submitted, and   *)
(* its poller with every answer of getTransactionReceipt.                  *)
(***************************************************************************)
InitPoll ==
  /\ InitEngine
  /\ walletConfigs = [w \in {W1} |-> WalletConfig(TRUE, TRUE, 0, "standard")]
  /\ trading = [t \in {TCat, TNew} |-> FALSE]

PollCalls ==
  /\ \A tx \in SweepIds : poll[tx].state = "none"
  /\ SweepToken(W1, TCat, 1, "high")

PollAllSteps ==
  \E tx \in SweepIds :
     \/ \E r \in Receipts : PollReceipt(tx, r)
     \/ PollNoReceipt(tx)
     \/ PollThrows(tx)

NextPoll == PollCalls \/ SweepSteps \/ PollAllSteps

SpecPoll == InitPoll /\ [][NextPoll]_vars

(***************************************************************************)
(* SpecStop: SpecSweep with the emergency stop route. The wallets were     *)
(* configured through POST /api/wallet/config, which stores the            *)
(* configuration under the address as given and monitors the lower-cased   *)
(* address.                                                                *)
(***************************************************************************)
StopWallets == {W1, WMixed}

InitStop ==
  /\ activeSweeps = {}
  /\ sw = [i \in SweepIds |-> IdleSweep]
  /\ poll = [tx \in SweepIds |-> NoPoller]
  /\ transactions = <<>>
  /\ activities = EmptyBag
  /\ events = EmptyBag
  /\ currentNetworkLoad = 0
  /\ manual = NoManual
  /\ sampled = -1
  /\ walletConfigs = [w \in StopWallets |-> WalletConfig(TRUE, TRUE, 0, "standard")]
  /\ monitoringWallets = {ToLowerCase(w) : w \in StopWallets}
  /\ timers = [w \in Wallets |-> IF w \in StopWallets THEN 1 ELSE 0]
  /\ specificTokensToMonitor = [w \in Wallets |-> <<>>]
  /\ knownTokens = <<TCat>>
  /\ tokenDetections = <<>>
  /\ scan = [s \in ScanIds |-> IdleScan]
  /\ trading = [t \in {TCat, TNew} |-> FALSE]

StopCalls == \E w \in StopWallets : SweepToken(w, TCat, 1, "high")

StopRoutes ==
  \/ \E w \in StopWallets : EmergencyStopRoute(w)
  \/ EmergencyStopRouteAll

NextStop == StopCalls \/ SweepSteps \/ PollSteps \/ StopRoutes

SpecStop == InitStop /\ [][NextStop]_vars

(***************************************************************************)
(* SpecDetect: one wallet is configured and monitored; its timer ticks,    *)
(* tokens are added to its watch-list and probed, the ledger answers.      *)
(***************************************************************************)
DetectWallets == {W1}
DetectConfigs == {WalletConfig(TRUE, auto, 0, "standard") : auto \in BOOLEAN}
ProbeTokens == {TNew}
HeldTokens == {TNew}
\* what getTokenBalance can answer for token t (-1: it throws)
LedgerBalances(t) == IF ToLowerCase(t) \in HeldTokens THEN {-1, 1} ELSE {-1, 0}

InitDetect ==
  /\ InitEngine
  /\ walletConfigs = <<>>
  /\ trading = [t \in {TCat, TNew} |-> FALSE]

DetectorSteps ==
  \E s \in ScanIds :
     \/ \E b \in LedgerBalances(scan[s].token) : ScanBalance(s, b)
     \/ ScanTrading(s)
     \/ \E b \in LedgerBalances(scan[s].token) : ScanSweepBalance(s, b)
     \/ ScanSweepReturned(s)
     \/ \E ok \in BOOLEAN : WatchInfo(s, ok)
     \/ \E b \in LedgerBalances(scan[s].token) : WatchBalance(s, b)
     \/ WatchTrading(s)
     \/ \E ok \in BOOLEAN : ProbeInfo(s, ok)
     \/ \E b \in LedgerBalances(scan[s].token) : ProbeBalance(s, b)
     \/ ProbeTrading(s)

DetectRoutes ==
  \/ \E w \in DetectWallets, cfg \in DetectConfigs :
        w \notin DOMAIN walletConfigs /\ ConfigRoute(w, cfg)
  \/ \E w \in DetectWallets : Tick(w)
  \/ \E w \in DetectWallets, t \in ProbeTokens : AddAndMonitor(w, t)
  \/ \E w \in DetectWallets, t \in ProbeTokens : DeregisterRoute(w, t)
  \/ \E t \in ProbeTokens : EnableTrading(ToLowerCase(t))

NextDetect == DetectRoutes \/ DetectorSteps \/ SweepSteps

SpecDetect == InitDetect /\ [][NextDetect]_vars

(***************************************************************************)
(* SpecMonitor: one wallet with automated sweeping disabled is configured, *)
(* then activated and deactivated through the PATCH route; its timers tick *)
(* and the ledger answers the catalog scans. SpecMonitorLive adds that     *)
(* armed timers tick and that the ledger answers.                          *)
(***************************************************************************)
MonitorWallets == {W1}
MonitorConfigs == {WalletConfig(TRUE, FALSE, 0, "standard")}
MonitorBalances == {0, 1}

InitMonitor ==
  /\ InitEngine
  /\ walletConfigs = <<>>
  /\ trading = [t \in {TCat, TNew} |-> FALSE]

MonitorSteps ==
  \E s \in ScanIds :
     \/ \E b \in MonitorBalances : ScanBalance(s, b)
     \/ ScanTrading(s)

MonitorTicks == \E w \in MonitorWallets : Tick(w)

MonitorRoutes ==
  \/ \E w \in MonitorWallets, cfg \in MonitorConfigs :
        w \notin DOMAIN walletConfigs /\ ConfigRoute(w, cfg)
  \/ \E w \in MonitorWallets, active \in BOOLEAN : PatchRoute(w, active)

NextMonitor == MonitorRoutes \/ MonitorTicks \/ MonitorSteps

SpecMonitor == InitMonitor /\ [][NextMonitor]_vars

SpecMonitorLive ==
  InitMonitor /\ [][NextMonitor]_vars /\ WF_vars(MonitorTicks) /\ WF_vars(MonitorSteps)

(***************************************************************************)
(* Properties of the sweeper                                               *)
(***************************************************************************)
TxsBy(i) == {tx \in DOMAIN transactions : transactions[tx].by = i}
KeyOf(i) == SweepKey(sw[i].wallet, sw[i].token)
Keys == {SweepKey(w, t) : w \in Wallets, t \in Tokens}

\* the configuration read by invocation i lets the sweep go through
Eligible(i) ==
  /\ sw[i].cfg.exists /\ sw[i].cfg.isActive
  /\ GetTokenValueUSD(sw[i].token, sw[i].balance) >= sw[i].cfg.minTransferAmount

C5_LockReleasedOnReturn ==
  [][\A i \in SweepIds :
       (sw[i].pc \notin {"idle", "done"} /\ sw'[i].pc = "done")
         => KeyOf(i) \notin activeSweeps']_vars

\* an invocation has returned through a rejected storage call of its failure
\* handler, another below the threshold
C5_Witness ==
  /\ \E i \in SweepIds : sw[i].pc = "done" /\ sw[i].result = -1
  /\ \E i \in SweepIds : sw[i].pc = "done" /\ ~sw[i].blocked /\ Eligible(i) = FALSE
                         /\ sw[i].cfg.isActive

\* C6: a sweep whose fiat value is below the configured minimum never creates
\* a transaction record, never requests a fee price, never submits.
C6_BelowThresholdNothing ==
  \A i \in SweepIds :
     (/\ sw[i].pc \notin {"idle", "config"} /\ ~sw[i].blocked
      /\ sw[i].cfg.exists
      /\ sw[i].usd < sw[i].cfg.minTransferAmount)
       => (TxsBy(i) = {} /\ ~sw[i].gasAsked /\ ~sw[i].submitted)

\* an active wallet, a value below its threshold, and the sweep has returned
C6_Witness ==
  \E i \in SweepIds :
     /\ sw[i].pc = "done" /\ ~sw[i].blocked /\ sw[i].cfg.isActive
     /\ sw[i].usd < sw[i].cfg.minTransferAmount /\ sw[i].result = 0

\* C9: a call that finds the lock of its key held changes nothing: the lock
\* set, the transaction records, the activity log, the events, the pollers
\* and every other invocation are as before.
C9_BlockedCallNoEffect ==
  [][\A i \in SweepIds :
       (sw[i].pc = "idle" /\ sw'[i].blocked)
         => /\ activeSweeps' = activeSweeps
            /\ transactions' = transactions
            /\ activities' = activities
            /\ events' = events
            /\ poll' = poll
            /\ walletConfigs' = walletConfigs
            /\ \A j \in SweepIds \ {i} : sw'[j] = sw[j]]_vars

\* a call was blocked and has returned while the holder still waits for the
\* ledger to answer its transfer
C9_Witness ==
  \E j \in SweepIds :
     /\ sw[j].blocked /\ sw[j].pc = "done"
     /\ sw[sw[j].blockedBy].pc = "transfer"
     /\ activeSweeps = {KeyOf(j)}

\* C7: the poller makes at most maxAttempts receipt queries and then stops;
\* when it has stopped without a receipt the record is as sweepToken left it.
C7_PollerBounded ==
  \A tx \in SweepIds :
     /\ poll[tx].queries <= maxAttempts
     /\ poll[tx].state = "armed" => poll[tx].attempts < maxAttempts
     /\ (poll[tx].state = "stopped" /\ poll[tx].writes = 0)
          => /\ transactions[tx].status = "completed"
             /\ transactions[tx].blockNumber = 0 /\ transactions[tx].gasUsed = 0

\* the poller has given up after maxAttempts queries without a receipt
C7_Witness ==
  \E tx \in SweepIds :
     /\ poll[tx].state = "stopped" /\ poll[tx].attempts = maxAttempts
     /\ poll[tx].queries = maxAttempts /\ poll[tx].writes = 0

\* C8 as stated: a record whose status is completed or failed is never
\* changed again.
C8_TerminalNeverMutated ==
  [][\A tx \in DOMAIN transactions :
       transactions[tx].status \in {"completed", "failed"}
         => transactions'[tx] = transactions[tx]]_vars

\* C8 amended: once the poller has recorded a receipt in a record (the
\* confirming block and the final status), no later step changes the record.
C8_ReceiptRecordedNeverMutated ==
  [][\A tx \in DOMAIN transactions :
       transactions[tx].blockNumber # 0
         => transactions'[tx] = transactions[tx]]_vars

\* a record holds a receipt while another invocation for the same wallet
\* and asset is in its failure handler
C8_Witness ==
  \E tx \in DOMAIN transactions, i \in SweepIds :
     /\ transactions[tx].blockNumber # 0
     /\ sw[i].pc = "done" /\ sw[i].transferThrew /\ transactions[tx].by # i
     /\ sw[i].wallet = transactions[tx].walletAddress

\* C10 as stated: when transferToken throws, the record the invocation
\* created, and no other, is the one it sets to failed, and it returns no
\* reference.
C10_OwnRecordFailed ==
  \A i \in SweepIds :
     (sw[i].transferThrew /\ sw[i].pc = "done")
       => /\ transactions[sw[i].txId].status = "failed"
          /\ sw[i].marked \in {0, sw[i].txId}
          /\ sw[i].result = 0

(***************************************************************************)
(* Properties of the detector                                              *)
(***************************************************************************)
AutoSources == {"catalog", "watch", "probe"}

\* the sweepToken calls made by the detector for wallet w and asset t that
\* were not turned away by the lock
AutoSweeps(w, t) ==
  {i \in SweepIds : /\ sw[i].pc # "idle" /\ sw[i].source \in AutoSources
                    /\ ~sw[i].blocked
                    /\ sw[i].wallet = w /\ ToLowerCase(sw[i].token) = t}

\* C2 as stated: over the ticks and probes in which the ledger's answer for an
\* asset goes from false to true once and stays true, the detector calls
\* sweepToken at most once for a (wallet, asset); even the calls that find the
\* lock free are at most one.
C2_AtMostOneAutoSweep ==
  \A w \in Wallets, t \in {TCat, TNew} : Cardinality(AutoSweeps(w, t)) <= 1

\* C3: a detection record whose tradingEnabled flag is true keeps it true in
\* every step of the engine.
C3_FlagNeverReset ==
  [][\A d \in DOMAIN tokenDetections :
       tokenDetections[d].tradingEnabled
         => (d \in DOMAIN tokenDetections' /\ tokenDetections'[d].tradingEnabled)]_vars

\* a watch-list scan has found a record whose flag was true, has written its
\* balance again, and the flag is still true
C3_Witness ==
  \E d \in DOMAIN tokenDetections, s \in ScanIds :
     /\ tokenDetections[d].tradingEnabled
     /\ scan[s].pc = "trading" /\ scan[s].phase = "specific"
     /\ scan[s].det = d /\ scan[s].detFlag

\* C4 as stated: at no time are two scans of one wallet running.
C4_NoOverlappingScans ==
  \A w \in Wallets :
     Cardinality({s \in ScanIds : scan[s].kind \in {"start", "patch", "tick"}
                                   /\ scan[s].wallet = w}) <= 1

(***************************************************************************)
(* Properties of failing sweeps                                            *)
(***************************************************************************)
\* the configuration read by invocation i is missing or inactive
ConfigFailure(i) ==
  sw[i].pc # "idle" /\ ~sw[i].blocked /\ (~sw[i].cfg.exists \/ ~sw[i].cfg.isActive)

\* the activity records of one type
ActivityCount(type) ==
  LET as == {a \in BagToSet(activities) : a.type = type}
      RECURSIVE Sum(_)
      Sum(S) == IF S = {} THEN 0
                ELSE LET a == CHOOSE x \in S : TRUE
                     IN CopiesIn(a, activities) + Sum(S \ {a})
  IN Sum(as)

\* C11 as stated: a sweep whose wallet configuration is missing or inactive
\* creates no record, sets no existing record to failed, submits nothing and
\* returns no reference.
C11_ConfigFailureNoEffect ==
  \A i \in SweepIds :
     (ConfigFailure(i) /\ sw[i].pc = "done")
       => /\ TxsBy(i) = {} /\ sw[i].marked = 0
          /\ ~sw[i].submitted /\ sw[i].result = 0

\* the invocations that have returned after a failure: of the configuration
\* check or of the submission
FailedSweeps ==
  {i \in SweepIds : sw[i].pc = "done" /\ (ConfigFailure(i) \/ sw[i].transferThrew)}

\* C12 as stated: every sweep that ended in failure has appended a failed
\* activity record and published a failure event.
C12_NoSilentFailure ==
  /\ Cardinality(FailedSweeps) <= ActivityCount("transfer_failed")
  /\ Cardinality(FailedSweeps) <= EventCount("sweep_failed")

(***************************************************************************)
(* Properties of monitoring                                                *)
(***************************************************************************)
\* C13 as stated: over any sequence of startMonitoring and stopMonitoring
\* calls at most one recurring scan timer is armed per wallet.
C13_OneTimerPerWallet == \A w \in Wallets : timers[w] <= 1

\* the detector tasks of wallet w started by a timer or by startMonitoring
ScansOf(w) ==
  {s \in ScanIds : scan[s].kind \in {"start", "patch", "tick"} /\ scan[s].wallet = w}

\* C14: when a wallet is not monitored a tick starts no scan and cancels its
\* timer; stopMonitoring leaves the scans in flight as they are; and when the
\* wallet stays unmonitored, eventually none of its scans runs and none of
\* its timers is armed.
C14_StopEndsScanning ==
  /\ [][\A s \in ScanIds :
          (scan[s].kind # "tick" /\ scan'[s].kind = "tick")
            => ToLowerCase(scan'[s].wallet) \in monitoringWallets]_vars
  /\ [][\A w \in Wallets :
          timers'[w] < timers[w]
            => /\ ToLowerCase(w) \notin monitoringWallets
               /\ timers'[w] = timers[w] - 1 /\ scan' = scan]_vars
  /\ [][(monitoringWallets' # monitoringWallets /\ monitoringWallets' \subseteq monitoringWallets)
          => scan' = scan]_vars
  /\ \A w \in MonitorWallets :
        <>[](ToLowerCase(w) \notin monitoringWallets)
          => <>[](timers[w] = 0 /\ ScansOf(w) = {})

\* the wallet was monitored with an armed timer, was stopped, and its timer
\* has been cancelled by a tick
C14_Witness ==
  \E w \in MonitorWallets :
     /\ EventCount("wallet_configured") > 0
     /\ GetWalletConfig(walletConfigs, w).exists /\ ~GetWalletConfig(walletConfigs, w).isActive
     /\ ToLowerCase(w) \notin monitoringWallets
     /\ timers[w] = 0 /\ ScansOf(w) = {}

(***************************************************************************)
(* SpecPrefix: two wallets, the address of one a prefix of the address of  *)
(* the other, sweep while emergency stops arrive.                          *)
(***************************************************************************)
PrefixWallets == {W1, W2}

InitPrefix ==
  /\ activeSweeps = {}
  /\ sw = [i \in SweepIds |-> IdleSweep]
  /\ poll = [tx \in SweepIds |-> NoPoller]
  /\ transactions = <<>>
  /\ activities = EmptyBag
  /\ events = EmptyBag
  /\ currentNetworkLoad = 0
  /\ manual = NoManual
  /\ sampled = -1
  /\ walletConfigs = [w \in PrefixWallets |-> WalletConfig(TRUE, TRUE, 0, "standard")]
  /\ monitoringWallets = {ToLowerCase(w) : w \in PrefixWallets}
  /\ timers = [w \in Wallets |-> IF w \in PrefixWallets THEN 1 ELSE 0]
  /\ specificTokensToMonitor = [w \in Wallets |-> <<>>]
  /\ knownTokens = <<TCat>>
  /\ tokenDetections = <<>>
  /\ scan = [s \in ScanIds |-> IdleScan]
  /\ trading = [t \in {TCat, TNew} |-> FALSE]

PrefixCalls == \E w \in PrefixWallets : SweepToken(w, TCat, 1, "high")

PrefixRoutes ==
  \/ \E w \in PrefixWallets : EmergencyStopRoute(w)
  \/ EmergencyStopRouteAll

NextPrefix == PrefixCalls \/ SweepSteps \/ PrefixRoutes

SpecPrefix == InitPrefix /\ [][NextPrefix]_vars

(***************************************************************************)
(* SpecWatch: tokens are registered for two wallets, under either spelling *)
(* of their address, probed and deregistered.                              *)
(***************************************************************************)
TNewUpper == <<"Y">>
WatchWallets == {W1, WMixed}
WatchTokens == {TNew, TNewUpper}

WatchRoutes ==
  \/ \E w \in WatchWallets, t \in WatchTokens : AddAndMonitor(w, t)
  \/ \E w \in WatchWallets, t \in WatchTokens : DeregisterRoute(w, t)

WatchSteps ==
  \E s \in ScanIds :
     \/ \E ok \in BOOLEAN : ProbeInfo(s, ok)
     \/ \E b \in MonitorBalances : ProbeBalance(s, b)
     \/ ProbeTrading(s)

NextWatchList == WatchRoutes \/ WatchSteps

SpecWatch == InitMonitor /\ [][NextWatchList]_vars

(***************************************************************************)
(* SpecGas: sweeps ask the optimizer for a fee price under every strategy, *)
(* urgency, congestion level and base fee, up to the transfer submission.  *)
(***************************************************************************)
GasStrategies == {"slow", "standard", "fast", "turbo"}
GasLoads == {0, 25, 50, 75, 95}
\* the base fee in gwei; -1: getGasPrice throws
GasBaseFees == {-1, 0, 3, 30}

InitGas ==
  /\ activeSweeps = {}
  /\ sw = [i \in SweepIds |-> IdleSweep]
  /\ poll = [tx \in SweepIds |-> NoPoller]
  /\ transactions = <<>>
  /\ activities = EmptyBag
  /\ events = EmptyBag
  /\ currentNetworkLoad \in GasLoads
  /\ manual = NoManual
  /\ sampled = -1
  /\ walletConfigs \in [{W1} -> {WalletConfig(TRUE, TRUE, 0, g) : g \in GasStrategies}]
  /\ monitoringWallets = {W1}
  /\ timers = [w \in Wallets |-> IF w = W1 THEN 1 ELSE 0]
  /\ specificTokensToMonitor = [w \in Wallets |-> <<>>]
  /\ knownTokens = <<TCat>>
  /\ tokenDetections = <<>>
  /\ scan = [s \in ScanIds |-> IdleScan]
  /\ trading = [t \in {TCat, TNew} |-> FALSE]

GasCalls ==
  /\ \A i \in SweepIds : sw[i].pc \in {"idle", "transfer", "done"}
  /\ \E t \in SweepTokens, u \in Urgencies : SweepToken(W1, t, 1, u)

GasSteps ==
  \E i \in SweepIds :
     \/ SweepConfig(i)
     \/ SweepThreshold(i)
     \/ \E base \in GasBaseFees : SweepCreateTransaction(i, base)
     \/ SweepLogStarted(i)
     \/ SweepSubmit(i)

NextGas == GasCalls \/ GasSteps

SpecGas == InitGas /\ [][NextGas]_vars

(***************************************************************************)
(* GasOptimizer.updateNetworkLoad, started by the constructor and by the   *)
(* timer of startNetworkMonitoring. SpecLoad: the samples are answered     *)
(* while a wallet is swept.                                                *)
(***************************************************************************)
\* lines 739-747: the level of a base fee of gwei
NetworkLoadOf(gwei) ==
  IF gwei < 20 THEN 25 ELSE IF gwei < 50 THEN 50 ELSE IF gwei < 100 THEN 75 ELSE 95

\* an updateNetworkLoad whose catch block clears the level
UpdateNetworkLoadResets(base) ==
  /\ MacroTurn
  /\ IF base < 0
     THEN currentNetworkLoad' = 0 /\ sampled' = sampled
     ELSE currentNetworkLoad' = NetworkLoadOf(base) /\ sampled' = base
  /\ UNCHANGED <<sweeperVars, walletConfigs, manual, detectorVars, trading>>

\* lines 732-753: getGasPrice answers base to updateNetworkLoad (-1: it
\* throws, caught at line 750)
UpdateNetworkLoad(base) ==
  /\ MacroTurn
  /\ IF base < 0
     THEN UNCHANGED <<currentNetworkLoad, sampled>>
     ELSE currentNetworkLoad' = NetworkLoadOf(base) /\ sampled' = base
  /\ UNCHANGED <<sweeperVars, walletConfigs, manual, detectorVars, trading>>

LoadFees == {-1, 0, 19, 20, 49, 50, 99, 100}

InitLoad ==
  /\ activeSweeps = {}
  /\ sw = [i \in SweepIds |-> IdleSweep]
  /\ poll = [tx \in SweepIds |-> NoPoller]
  /\ transactions = <<>>
  /\ activities = EmptyBag
  /\ events = EmptyBag
  /\ currentNetworkLoad = 0
  /\ manual = NoManual
  /\ sampled = -1
  /\ walletConfigs = [w \in {W1} |-> WalletConfig(TRUE, TRUE, 0, "standard")]
  /\ monitoringWallets = {W1}
  /\ timers = [w \in Wallets |-> IF w = W1 THEN 1 ELSE 0]
  /\ specificTokensToMonitor = [w \in Wallets |-> <<>>]
  /\ knownTokens = <<TCat>>
  /\ tokenDetections = <<>>
  /\ scan = [s \in ScanIds |-> IdleScan]
  /\ trading = [t \in {TCat, TNew} |-> FALSE]

LoadSamples == \E base \in LoadFees : UpdateNetworkLoad(base)

LoadCalls ==
  /\ \A i \in SweepIds : sw[i].pc \in {"idle", "transfer", "done"}
  /\ SweepToken(W1, TCat, 1, "medium")

NextLoad == LoadSamples \/ LoadCalls \/ GasSteps

SpecLoad == InitLoad /\ [][NextLoad]_vars

(***************************************************************************)
(* SpecResume: the sweeps of one wallet, its emergency stop, and the       *)
(* PATCH that makes its configuration active again and rescans it (the     *)
(* wallet holds nothing the scan could detect).                            *)
(***************************************************************************)
ResumeCalls == SweepToken(W1, TCat, 1, "high")

ResumeRoutes ==
  \/ EmergencyStopRoute(W1)
  \/ PatchRoute(W1, TRUE)

ResumeSteps == \E s \in ScanIds : ScanBalance(s, 0)

NextResume == ResumeCalls \/ SweepSteps \/ ResumeRoutes \/ ResumeSteps

SpecResume == InitLoad /\ [][NextResume]_vars

(***************************************************************************)
(* SpecLive: one wallet with automated sweeping holds the catalog asset;   *)
(* its timer ticks, the ledger answers or fails, the asset becomes         *)
(* transferable. Every task that can take a step eventually takes one.     *)
(***************************************************************************)
LiveBalances == {-1, 1}

LiveRoutes ==
  \/ W1 \notin DOMAIN walletConfigs
       /\ ConfigRoute(W1, WalletConfig(TRUE, TRUE, 0, "standard"))
  \/ EnableTrading(TCat)

LiveTicks == Tick(W1)

\* the steps of detector task s
LiveStepsOf(s) ==
  \/ \E b \in LiveBalances : ScanBalance(s, b)
  \/ ScanTrading(s)
  \/ \E b \in LiveBalances : ScanSweepBalance(s, b)
  \/ ScanSweepReturned(s)

LiveSteps == \E s \in ScanIds : LiveStepsOf(s)

NextLive == LiveRoutes \/ LiveTicks \/ LiveSteps \/ SweepSteps

SpecLive ==
  /\ InitMonitor /\ [][NextLive]_vars
  /\ WF_vars(LiveRoutes) /\ WF_vars(LiveTicks)
  /\ \A s \in ScanIds : WF_vars(LiveStepsOf(s))
  /\ \A i \in SweepIds : WF_vars(SweepStepsOf(i))

(***************************************************************************)
(* SpecFlag: a wallet is configured with automated sweeping disabled and   *)
(* holds the catalog asset; scans start from the routes and from the       *)
(* timer, the asset becomes transferable, automated sweeping is switched.  *)
(***************************************************************************)
FlagRoutes ==
  \/ \E cfg \in MonitorConfigs : W1 \notin DOMAIN walletConfigs /\ ConfigRoute(W1, cfg)
  \/ PatchRoute(W1, TRUE)
  \/ \E auto \in BOOLEAN : PatchAutoSweepRoute(W1, auto)
  \/ Tick(W1)
  \/ EnableTrading(TCat)

FlagSteps ==
  \E s \in ScanIds :
     \/ \E b \in MonitorBalances : ScanBalance(s, b)
     \/ ScanTrading(s)
     \/ \E b \in MonitorBalances : ScanSweepBalance(s, b)
     \/ ScanSweepReturned(s)

NextFlag == FlagRoutes \/ FlagSteps \/ SweepSteps

SpecFlag == InitMonitor /\ [][NextFlag]_vars

(***************************************************************************)
(* SpecZero: the wallet holds the catalog asset when it is configured and  *)
(* none afterwards; a second asset, which it never holds, is registered    *)
(* for it. Its timer ticks and the catalog asset becomes transferable.     *)
(***************************************************************************)
\* what getTokenBalance answers to detector task s
ZeroBalances(s) ==
  IF scan[s].kind = "start" /\ scan[s].token = TCat THEN {1} ELSE {0}

ZeroRoutes ==
  \/ W1 \notin DOMAIN walletConfigs
       /\ ConfigRoute(W1, WalletConfig(TRUE, TRUE, 0, "standard"))
  \/ Tick(W1)
  \/ AddAndMonitor(W1, TNew)
  \/ EnableTrading(TCat)

ZeroSteps ==
  \E s \in ScanIds :
     \/ \E b \in ZeroBalances(s) : ScanBalance(s, b)
     \/ ScanTrading(s)
     \/ \E b \in ZeroBalances(s) : ScanSweepBalance(s, b)
     \/ ScanSweepReturned(s)
     \/ \E ok \in BOOLEAN : WatchInfo(s, ok)
     \/ \E b \in ZeroBalances(s) : WatchBalance(s, b)
     \/ \E ok \in BOOLEAN : ProbeInfo(s, ok)
     \/ \E b \in ZeroBalances(s) : ProbeBalance(s, b)

NextZero == ZeroRoutes \/ ZeroSteps \/ SweepSteps

SpecZero == InitMonitor /\ [][NextZero]_vars

(***************************************************************************)
(* SpecFail: the ledger throws at every balance query for the catalog      *)
(* asset. The wallet registers a second asset, which it holds, and its     *)
(* timer ticks. A task that has been answered makes its next call.         *)
(***************************************************************************)
FailBalances(s) == IF scan[s].token = TCat THEN {-1} ELSE {1}

FailRoutes ==
  \/ W1 \notin DOMAIN walletConfigs
       /\ ConfigRoute(W1, WalletConfig(TRUE, FALSE, 0, "standard"))
  \/ Tick(W1)
  \/ AddAndMonitor(W1, TNew)

FailStepsOf(s) ==
  \/ \E b \in FailBalances(s) : ScanBalance(s, b)
  \/ ScanTrading(s)
  \/ \E ok \in BOOLEAN : WatchInfo(s, ok)
  \/ \E b \in FailBalances(s) : WatchBalance(s, b)
  \/ WatchTrading(s)
  \/ \E ok \in BOOLEAN : ProbeInfo(s, ok)
  \/ \E b \in FailBalances(s) : ProbeBalance(s, b)
  \/ ProbeTrading(s)

NextFail == FailRoutes \/ \E s \in ScanIds : FailStepsOf(s)

SpecFail ==
  /\ InitMonitor /\ [][NextFail]_vars
  /\ \A s \in ScanIds : WF_vars(FailStepsOf(s))

(***************************************************************************)
(* SpecOrder: the wallet sweeps automatically, holds the catalog asset and *)
(* a second asset it registers after a probe that found none. The ledger   *)
(* answers 1 to the balance query that opens the scan of an asset and      *)
(* RereadBalance to the query of checkTradingStatus.                       *)
(***************************************************************************)
RereadBalance == 2

OrderBalances(s) ==
  IF scan[s].kind = "probe" THEN {0}
  ELSE IF scan[s].pc = "sweepBalance" THEN {RereadBalance} ELSE {1}

OrderRoutes ==
  \/ W1 \notin DOMAIN walletConfigs
       /\ ConfigRoute(W1, WalletConfig(TRUE, TRUE, 0, "standard"))
  \/ Tick(W1)
  \/ AddAndMonitor(W1, TNew)
  \/ \E t \in {TCat, TNew} : EnableTrading(t)

OrderSteps ==
  \E s \in ScanIds :
     \/ \E b \in OrderBalances(s) : ScanBalance(s, b)
     \/ ScanTrading(s)
     \/ \E b \in OrderBalances(s) : ScanSweepBalance(s, b)
     \/ ScanSweepReturned(s)
     \/ \E ok \in BOOLEAN : WatchInfo(s, ok)
     \/ \E b \in OrderBalances(s) : WatchBalance(s, b)
     \/ WatchTrading(s)
     \/ \E ok \in BOOLEAN : ProbeInfo(s, ok)
     \/ \E b \in OrderBalances(s) : ProbeBalance(s, b)

NextOrder == OrderRoutes \/ OrderSteps \/ SweepSteps

SpecOrder == InitMonitor /\ [][NextOrder]_vars

(***************************************************************************)
(* SpecTwo: two wallets are configured with automated sweeping and         *)
(* monitored; both hold the catalog asset, which becomes transferable; the *)
(* ledger answers or throws.                                               *)
(***************************************************************************)
TwoBalances == {-1, 1}

TwoRoutes ==
  \/ \E w \in PrefixWallets : Tick(w)
  \/ EnableTrading(TCat)

TwoSteps ==
  \E s \in ScanIds :
     \/ \E b \in TwoBalances : ScanBalance(s, b)
     \/ ScanTrading(s)
     \/ \E b \in TwoBalances : ScanSweepBalance(s, b)
     \/ ScanSweepReturned(s)

NextTwo == TwoRoutes \/ TwoSteps \/ SweepSteps

SpecTwo == InitPrefix /\ [][NextTwo]_vars

(***************************************************************************)
(* SpecShare: two monitored wallets that both hold an asset outside the    *)
(* catalog and none of the catalog asset; W1 registers the asset, the      *)
(* timer of W2 ticks, the asset becomes transferable.                      *)
(***************************************************************************)
ShareBalances(s) == IF ToLowerCase(scan[s].token) = TNew THEN {1} ELSE {0}

ShareRoutes ==
  \/ Tick(W2)
  \/ AddAndMonitor(W1, TNew)
  \/ EnableTrading(TNew)

ShareSteps ==
  \E s \in ScanIds :
     \/ \E b \in ShareBalances(s) : ScanBalance(s, b)
     \/ ScanTrading(s)
     \/ \E b \in ShareBalances(s) : ScanSweepBalance(s, b)
     \/ ScanSweepReturned(s)
     \/ ProbeInfo(s, TRUE)
     \/ \E b \in ShareBalances(s) : ProbeBalance(s, b)
     \/ ProbeTrading(s)

NextShare == ShareRoutes \/ ShareSteps \/ SweepSteps

SpecShare == InitPrefix /\ [][NextShare]_vars

(***************************************************************************)
(* SpecForget: a monitored wallet registers an asset outside the catalog,  *)
(* which it holds, and deregisters it; its timer ticks only after that.    *)
(***************************************************************************)
Deregistered ==
  /\ EventCount("token_monitoring_removed") > 0
  /\ \A k \in DOMAIN specificTokensToMonitor[W1] : specificTokensToMonitor[W1][k] # TNew

ForgetRoutes ==
  \/ EventCount("token_monitoring_removed") = 0 /\ AddAndMonitor(W1, TNew)
  \/ DeregisterRoute(W1, TNew)
  \/ Deregistered /\ Tick(W1)
  \/ EnableTrading(TNew)

NextForget == ForgetRoutes \/ ShareSteps \/ SweepSteps

SpecForget == InitLoad /\ [][NextForget]_vars

(***************************************************************************)
(* SpecSkip: a monitored wallet has registered TNew and then TCat; its     *)
(* timer ticks, and TNew is deregistered at any moment. TCat stays on the  *)
(* watch-list, as its last element.                                        *)
(***************************************************************************)
InitSkip ==
  /\ activeSweeps = {}
  /\ sw = [i \in SweepIds |-> IdleSweep]
  /\ poll = [tx \in SweepIds |-> NoPoller]
  /\ transactions = <<>>
  /\ activities = EmptyBag
  /\ events = EmptyBag
  /\ currentNetworkLoad = 0
  /\ manual = NoManual
  /\ sampled = -1
  /\ walletConfigs = [w \in {W1} |-> WalletConfig(TRUE, TRUE, 0, "standard")]
  /\ monitoringWallets = {W1}
  /\ timers = [w \in Wallets |-> IF w = W1 THEN 1 ELSE 0]
  /\ specificTokensToMonitor = [w \in Wallets |-> IF w = W1 THEN <<TNew, TCat>> ELSE <<>>]
  /\ knownTokens = <<TCat, TNew>>
  /\ tokenDetections = <<>>
  /\ scan = [s \in ScanIds |-> IdleScan]
  /\ trading = [t \in {TCat, TNew} |-> FALSE]

SkipRoutes ==
  \/ Tick(W1)
  \/ DeregisterRoute(W1, TNew)

SkipSteps ==
  \E s \in ScanIds :
     \/ \E b \in MonitorBalances : ScanBalance(s, b)
     \/ ScanTrading(s)
     \/ \E b \in MonitorBalances : WatchBalance(s, b)
     \/ WatchTrading(s)

NextSkip == SkipRoutes \/ SkipSteps

SpecSkip == InitSkip /\ [][NextSkip]_vars

(***************************************************************************)
(* The manual sweep of a wallet whose catalog asset the scans detect       *)
(***************************************************************************)
ManualTokens == {TCat, TCatUpper, TNew}
ManualUrgencies == {"medium"}

ManualRoutes ==
  \/ \E w \in MonitorWallets, cfg \in MonitorConfigs :
        w \notin DOMAIN walletConfigs /\ ConfigRoute(w, cfg)
  \/ \E w \in MonitorWallets, t \in ManualTokens, u \in ManualUrgencies :
        ManualSweepRoute(w, t, u)
  \/ \E w \in MonitorWallets, t \in ManualTokens : ManualSweepToken(w, t)
  \/ EnableTrading(TCat)

NextManual == ManualRoutes \/ MonitorSteps \/ SweepSteps

SpecManual == InitMonitor /\ [][NextManual]_vars

(***************************************************************************)
(* Properties of the probe and of the manual sweep                         *)
(***************************************************************************)
\* the sweepToken invocations that begin in the step
NewSweeps == {i \in SweepIds : sw[i].pc = "idle" /\ sw'[i].pc # "idle"}

\* C15: a probe that found a positive balance calls sweepToken once, for its
\* wallet, asset and balance, when the ledger answers that the asset is
\* transferable and the wallet has automated sweeping enabled, and not at all
\* otherwise; it makes no other call, before or after.
C15_ProbeSweepsOnce ==
  [][/\ \A s \in ScanIds :
          (scan[s].phase = "probe" /\ scan'[s] # scan[s])
            => IF /\ scan[s].pc = "trading"
                  /\ trading[ToLowerCase(scan[s].token)]
                  /\ GetWalletConfig(walletConfigs, scan[s].wallet).autoSweepEnabled
               THEN /\ Cardinality(NewSweeps) = 1
                    /\ \A i \in NewSweeps :
                          /\ sw'[i].source = "probe" /\ sw'[i].wallet = scan[s].wallet
                          /\ sw'[i].token = scan[s].token /\ sw'[i].balance = scan[s].bal
                          /\ scan'[s].pc = "sweeping" /\ scan'[s].child = i
               ELSE NewSweeps = {}
     /\ \A i \in NewSweeps :
          sw'[i].source = "probe"
            => \E s \in ScanIds : scan[s].phase = "probe" /\ scan[s].pc = "trading"]_vars

\* a probe has called sweepToken, the call has returned and so has the probe
C15_Witness ==
  /\ \E i \in SweepIds : sw[i].source = "probe" /\ sw[i].pc = "done" /\ ~sw[i].blocked
  /\ EventCount("token_monitoring_added") > 0
  /\ \A s \in ScanIds : scan[s].phase # "probe"

\* a detection of asset t is stored for wallet w
DetectionExists(w, t) ==
  \E k \in DOMAIN tokenDetections :
     /\ tokenDetections[k].walletAddress = w
     /\ ToLowerCase(tokenDetections[k].tokenAddress) = ToLowerCase(t)

\* C16: a manual sweep of (w, a) calls sweepToken for (w, a) when a detection
\* of (w, a) exists, whatever its tradingEnabled flag; when none exists it calls
\* nothing and changes no state.
C16_ManualSweep ==
  [][manual' # manual
       => IF DetectionExists(manual'.wallet, manual'.token)
          THEN /\ Cardinality(NewSweeps) = 1
               /\ \A i \in NewSweeps : /\ sw'[i].wallet = manual'.wallet
                                        /\ sw'[i].token = manual'.token
          ELSE /\ NewSweeps = {}
               /\ UNCHANGED <<sweeperVars, walletConfigs, currentNetworkLoad,
                              detectorVars, trading>>]_vars

\* the same of the route alone
C16_RouteSweeps ==
  [][(manual' # manual /\ manual'.op = "route")
       => IF DetectionExists(manual'.wallet, manual'.token)
          THEN /\ Cardinality(NewSweeps) = 1
               /\ \A i \in NewSweeps : /\ sw'[i].wallet = manual'.wallet
                                        /\ sw'[i].token = manual'.token
          ELSE /\ NewSweeps = {}
               /\ UNCHANGED <<sweeperVars, walletConfigs, currentNetworkLoad,
                              detectorVars, trading>>]_vars

(***************************************************************************)
(* Properties of the lock set filter                                       *)
(***************************************************************************)
\* the entries of the lock set that belong to wallet w
KeysOfWallet(locks, w) == {k \in locks : \E t \in Tokens : k = SweepKey(w, t)}

\* C17: getActiveSweepCount(w) counts exactly the entries of w; an emergency
\* stop of w removes every entry of w and no entry of another wallet; an
\* emergency stop without a wallet empties the lock set.
C17_WalletFilter ==
  /\ [](\A w \in PrefixWallets :
          GetActiveSweepCount(activeSweeps, w) = Cardinality(KeysOfWallet(activeSweeps, w)))
  /\ [][/\ \A w \in PrefixWallets :
             (events' = Broadcast(events, "emergency_stop", 0, w)
                => activeSweeps' = activeSweeps \ KeysOfWallet(activeSweeps, w))
         /\ (events' = Broadcast(events, "emergency_stop", 0, <<>>)
                => activeSweeps' = {})]_vars

\* the part of C17 about emergencyStop alone
C17_StopFilter ==
  [][\A w \in PrefixWallets :
        events' = Broadcast(events, "emergency_stop", 0, w)
          => activeSweeps' = activeSweeps \ KeysOfWallet(activeSweeps, w)]_vars

(***************************************************************************)
(* Properties of the watch-list                                            *)
(***************************************************************************)
\* the calls of addAndMonitorSpecificToken that begin in the step
NewProbes == {s \in ScanIds : scan[s].pc = "idle" /\ scan'[s].kind = "probe"}

Listed(w, t) ==
  \E k \in 1..Len(specificTokensToMonitor[w]) : specificTokensToMonitor[w][k] = t

\* C18: the watch-list of every wallet holds no address twice and only
\* lower-case addresses, and registering an address that is listed under another
\* spelling leaves the watch-lists as they are.
C18_WatchListNormalized ==
  /\ [](\A w \in Wallets :
          LET list == specificTokensToMonitor[w]
          IN /\ \A j, k \in 1..Len(list) : list[j] = list[k] => j = k
             /\ \A k \in 1..Len(list) : ToLowerCase(list[k]) = list[k])
  /\ [][\A s \in NewProbes :
          Listed(scan'[s].wallet, ToLowerCase(scan'[s].token))
            => specificTokensToMonitor' = specificTokensToMonitor]_vars

\* the upper-case spelling is being probed for a wallet whose list holds the
\* lower-case one, registered by a probe that is still running
C18_Witness ==
  \E r, s \in ScanIds :
     /\ scan[r].kind = "probe" /\ scan[s].kind = "probe"
     /\ scan[r].wallet = scan[s].wallet
     /\ scan[r].token = TNew /\ scan[s].token = TNewUpper
     /\ specificTokensToMonitor[scan[s].wallet] = <<TNew>>

\* C19: the deregistration of asset a for wallet w changes the watch-list of w
\* and nothing else: the detections, the transactions, the activities and the
\* watch-lists of the other wallets stay as they are.
C19_DeregisterFrame ==
  [][\A w \in WatchWallets :
        events' = Broadcast(events, "token_monitoring_removed", 0, w)
          => /\ UNCHANGED <<tokenDetections, transactions, activities>>
             /\ \A v \in Wallets \ {w} :
                   specificTokensToMonitor'[v] = specificTokensToMonitor[v]
             /\ UNCHANGED <<activeSweeps, sw, poll, walletConfigs, monitoringWallets,
                            timers, knownTokens, scan>>]_vars

\* an asset was deregistered for a wallet that keeps its detection of it, while
\* the other wallet keeps its watch-list
C19_Witness ==
  \E w, v \in WatchWallets :
     /\ w # v
     /\ \E e \in BagToSet(events) : e.type = "token_monitoring_removed" /\ e.wallet = w
     /\ specificTokensToMonitor[w] = <<>>
     /\ specificTokensToMonitor[v] = <<TNew>>
     /\ \E k \in DOMAIN tokenDetections :
           /\ tokenDetections[k].walletAddress = w
           /\ ToLowerCase(tokenDetections[k].tokenAddress) = TNew
     /\ activities # EmptyBag

(***************************************************************************)
(* Properties of the detection records                                     *)
(***************************************************************************)
\* C20: no two detection records are of the same wallet and the same asset.
C20_OneDetectionPerPair ==
  \A j, k \in DOMAIN tokenDetections :
     (/\ tokenDetections[j].walletAddress = tokenDetections[k].walletAddress
      /\ ToLowerCase(tokenDetections[j].tokenAddress)
           = ToLowerCase(tokenDetections[k].tokenAddress))
       => j = k

(***************************************************************************)
(* Properties of the fee price (prices in hundredths of a gwei)            *)
(***************************************************************************)
\* the invocations that were answered a fee price
Priced == {i \in SweepIds : sw[i].pc \in {"created", "logged", "transfer"}}

\* C21: the fee price is never below the minimum fee of 1 gwei, whatever the
\* strategy, the urgency, the congestion level and the base fee, a failed
\* base-fee query included.
C21_PriceAtLeastFloor == \A i \in Priced : sw[i].gasPrice >= MinGasPrice * 100

\* a price that the floor raised, and the fallback price of a failed query
C21_Witness ==
  \E i, j \in Priced :
     /\ sw[i].base = 0 /\ sw[i].gasPrice = MinGasPrice * 100
     /\ sw[j].base = -1 /\ sw[j].gasPrice = FallbackGasPrice * 100

\* the factors as the specification states them, in tenths and hundredths
StatedStrategy(cfg) ==
  IF cfg.gasStrategy = "slow" THEN 8 ELSE IF cfg.gasStrategy = "fast" THEN 13 ELSE 10
StatedUrgency(u) == IF u = "high" THEN 12 ELSE IF u = "low" THEN 9 ELSE 10
StatedCongestion(load) == IF load > 80 THEN 110 ELSE IF load < 30 THEN 95 ELSE 100

\* base fee x strategy x urgency x congestion, in 1/10000 gwei, floored
StatedPrice(i) ==
  Max(sw[i].base * StatedStrategy(sw[i].cfg) * StatedUrgency(sw[i].urgency)
        * StatedCongestion(sw[i].load), 10000)

\* two invocations that differ in their urgency only
SameButUrgency(i, j) ==
  /\ sw[i].base = sw[j].base /\ sw[i].load = sw[j].load
  /\ sw[i].cfg.gasStrategy = sw[j].cfg.gasStrategy

UrgencyRank(u) == IF u = "high" THEN 3 ELSE IF u = "low" THEN 1 ELSE 2

\* C22 as stated: the price of an answered base-fee query is exactly
\* max(base fee x strategy x urgency x congestion, floor).
C22_PriceIsExactProduct ==
  \A i \in Priced : sw[i].base >= 0 => sw[i].gasPrice * 100 = StatedPrice(i)

\* C22 amended: the price of an answered base-fee query is
\* max(base fee x strategy x urgency x congestion, floor) rounded to two
\* decimals; for equal base fee, strategy and congestion the price does not
\* decrease with the urgency, and medium urgency applies no scaling.
C22_PriceIsRoundedProduct ==
  /\ \A i \in Priced :
        sw[i].base >= 0 => /\ sw[i].gasPrice * 100 - 50 <= StatedPrice(i)
                           /\ StatedPrice(i) < sw[i].gasPrice * 100 + 50
  /\ \A i, j \in Priced :
        (SameButUrgency(i, j) /\ UrgencyRank(sw[i].urgency) <= UrgencyRank(sw[j].urgency))
          => sw[i].gasPrice <= sw[j].gasPrice
  /\ \A i \in Priced :
        (sw[i].urgency = "medium" /\ sw[i].base >= 0)
          => LET unscaled == Max(sw[i].base * StatedStrategy(sw[i].cfg) * 10
                                   * StatedCongestion(sw[i].load), 10000)
             IN /\ sw[i].gasPrice * 100 - 50 <= unscaled
                /\ unscaled < sw[i].gasPrice * 100 + 50

\* the same base fee priced under low and under high urgency, the higher
\* price not a whole number of hundredths before rounding
C22_Witness ==
  \E i, j \in Priced :
     /\ SameButUrgency(i, j) /\ sw[i].base = 3
     /\ sw[i].urgency = "low" /\ sw[j].urgency = "high"
     /\ sw[i].gasPrice < sw[j].gasPrice
     /\ sw[i].gasPrice * 100 # StatedPrice(i)

(***************************************************************************)
(* Properties of the scans                                                 *)
(***************************************************************************)
\* a step in which getTokenBalance throws in a catalog scan
LedgerThrows ==
  \E s \in ScanIds :
     /\ scan'[s] # scan[s]
     /\ \/ scan[s].pc = "balance" /\ scan[s].phase = "catalog" /\ scan'[s].pc # "trading"
        \/ scan[s].pc = "sweepBalance" /\ scan'[s].pc # "sweeping"

\* sweepToken was invoked for wallet w and asset t with high urgency
SweepInvoked(w, t) ==
  \E i \in SweepIds :
     /\ sw[i].pc # "idle" /\ sw[i].wallet = w /\ ToLowerCase(sw[i].token) = t
     /\ sw[i].urgency = "high"

\* C23: if the wallet stays monitored with automated sweeping enabled, the
\* asset becomes and stays transferable and the ledger calls eventually stop
\* failing, then sweepToken is eventually invoked for the wallet and the asset
\* with high urgency.
C23_EventuallySwept ==
  (/\ <>[](/\ ToLowerCase(W1) \in monitoringWallets
           /\ GetWalletConfig(walletConfigs, W1).autoSweepEnabled)
   /\ <>[]trading[TCat]
   /\ <>[][~LedgerThrows]_vars)
    => <>SweepInvoked(W1, TCat)

\* detector task s checks the transferability of its asset in the step and
\* finds it newly true: the record it looks up is not flagged
ObservesNewlyTrue(s) ==
  /\ scan[s].pc = "trading" /\ scan[s].phase = "catalog" /\ scan'[s] # scan[s]
  /\ trading[scan[s].token]
  /\ LET d == FindDetection(tokenDetections, scan[s].wallet, ToLowerCase(scan[s].token))
     IN d # 0 /\ ~tokenDetections[d].tradingEnabled

\* detector task s began after a flag of its asset was stored true
BeganFlagged(s) ==
  /\ scan[s].phase = "catalog"
  /\ \E k \in 1..Len(scan[s].existing) :
        /\ scan[s].existing[k].token = ToLowerCase(scan[s].token)
        /\ scan[s].existing[k].tradingEnabled

\* C24: a scan that finds the asset newly transferable while automated
\* sweeping is disabled stores the flag and invokes no sweep; and a scan tick
\* that begins once a flag of the asset is stored true triggers no automatic
\* sweep of it, also when automated sweeping has been enabled since.
C24_FlagWithoutSweep ==
  [][\A s \in ScanIds :
       /\ (ObservesNewlyTrue(s)
             /\ ~GetWalletConfig(walletConfigs, scan[s].wallet).autoSweepEnabled)
           => /\ LET d == FindDetection(tokenDetections, scan[s].wallet,
                                        ToLowerCase(scan[s].token))
                 IN tokenDetections'[d].tradingEnabled
              /\ NewSweeps = {}
              /\ scan'[s].pc # "sweepBalance"
       /\ BeganFlagged(s) => scan'[s].pc \notin {"sweepBalance", "sweeping"}]_vars

\* the detection records that the step creates, and the stored flags that it
\* turns from false to true
Created == Len(tokenDetections') - Len(tokenDetections)
Flipped ==
  Cardinality({k \in DOMAIN tokenDetections :
                 ~tokenDetections[k].tradingEnabled /\ tokenDetections'[k].tradingEnabled})

\* C25: a step that creates a detection record appends one token_detected
\* activity and publishes one event for it, and a step that turns a stored flag
\* from false to true appends one trading_enabled activity and publishes one
\* event for it, on every path.
C25_DetectionsAnnounced ==
  [][/\ Created > 0
         => /\ ActivityCount("token_detected")' - ActivityCount("token_detected") = Created
            /\ EventCount("token_detected")' - EventCount("token_detected") = Created
     /\ Flipped > 0
         => /\ ActivityCount("trading_enabled")' - ActivityCount("trading_enabled") = Flipped
            /\ EventCount("trading_enabled")' - EventCount("trading_enabled") = Flipped]_vars

\* the part of C25 about the activity records
C25_DetectionsLogged ==
  [][/\ Created > 0
         => ActivityCount("token_detected")' - ActivityCount("token_detected") = Created
     /\ Flipped > 0
         => ActivityCount("trading_enabled")' - ActivityCount("trading_enabled") = Flipped]_vars

\* C26: in a scan, the answer of getTokenBalance for an asset is followed by
\* the creation or update of a detection, by the transferability check and by
\* a sweep only when the balance read is positive; otherwise the scan goes on
\* to its next asset, the detections stay as they are and no sweep is invoked,
\* also when a detection of the asset with a positive balance is stored.
C26_ZeroBalanceSkipped ==
  [][\A s \in ScanIds :
       (/\ scan[s].pc = "balance" /\ scan[s].phase \in {"catalog", "specific"}
        /\ scan'[s] # scan[s])
         => \/ scan'[s].pc = "trading" /\ scan'[s].bal > 0
            \/ /\ scan'[s].pc # "trading"
               /\ tokenDetections' = tokenDetections
               /\ NewSweeps = {}]_vars

\* a tick was answered a balance of zero for the catalog asset and has gone on
\* to the next asset: the detection of the catalog asset, which the tick read
\* before its loop, keeps its balance of 1 and its flag, although the asset is
\* transferable by now
C26_Witness ==
  \E s \in ScanIds :
     /\ scan[s].kind = "tick" /\ scan[s].phase = "catalog" /\ scan[s].token = TNew
     /\ \E k \in 1..Len(scan[s].existing) :
           /\ scan[s].existing[k].token = TCat /\ scan[s].existing[k].balance = 1
           /\ ~scan[s].existing[k].tradingEnabled
     /\ trading[TCat]
     /\ \A k \in DOMAIN tokenDetections :
           tokenDetections[k].balance = 1 /\ ~tokenDetections[k].tradingEnabled
     /\ tokenDetections # <<>>

\* the tick task s is at the balance query of token t in its catalog loop
TickQueries(s, t) ==
  /\ scan[s].kind = "tick" /\ scan[s].phase = "catalog"
  /\ scan[s].pc = "balance" /\ scan[s].token = t

\* C27: when getTokenBalance throws for one asset in a tick, the tick goes on
\* to query the other asset of its loop, the step leaves the timer of the
\* wallet armed, and every tick of the armed timer starts its loop over all
\* known assets, the failed one included.
C27_FailureSkipsOneAsset ==
  /\ \A s \in ScanIds :
        (TickQueries(s, TCat) /\ Len(scan[s].todo) = 2) ~> TickQueries(s, TNew)
  /\ [][\A s \in ScanIds :
          /\ (TickQueries(s, TCat) /\ scan'[s] # scan[s])
               => timers' = timers /\ timers[W1] > 0
          /\ (scan[s].pc = "idle" /\ scan'[s].kind = "tick")
               => /\ timers' = timers
                  /\ scan'[s].todo = knownTokens /\ TickQueries(s, TCat)']_vars

\* a tick whose query for the catalog asset failed has stored a detection
\* of the other asset and is in the loop over the watch-list; no detection
\* of the catalog asset exists and the timer is armed
C27_Witness ==
  \E s \in ScanIds :
     /\ scan[s].kind = "tick" /\ scan[s].phase = "specific"
     /\ knownTokens = <<TCat, TNew>>
     /\ \E k \in DOMAIN tokenDetections : tokenDetections[k].tokenAddress = TNew
     /\ \A k \in DOMAIN tokenDetections : tokenDetections[k].tokenAddress # TCat
     /\ timers[W1] > 0

\* the detector task that calls sweepToken for invocation i in this step
Caller(i) ==
  {s \in ScanIds : scan[s].pc # "sweeping" /\ scan'[s].pc = "sweeping" /\ scan'[s].child = i}

\* C28: a scan that turns to the transferability check of an asset has stored
\* its detection with the balance just read; a scan calls sweepToken only
\* from the step that follows a transferability check answered true, with the
\* detection flagged; the amount it passes is the balance the ledger
\* answered in this scan: in the catalog loop the one read for the sweep,
\* which no stored detection holds, in the watch-list loop the one that
\* opened the scan of the asset.
C28_ScanOrder ==
  [][/\ \A s \in ScanIds :
          (scan[s].pc = "balance" /\ scan'[s].pc = "trading")
            => \E k \in DOMAIN tokenDetections' :
                  /\ tokenDetections'[k].walletAddress = scan[s].wallet
                  /\ ToLowerCase(tokenDetections'[k].tokenAddress) = ToLowerCase(scan[s].token)
                  /\ tokenDetections'[k].balance = scan'[s].bal
     /\ \A i \in NewSweeps : \E s \in Caller(i) :
          /\ scan[s].pc = IF scan[s].phase = "catalog" THEN "sweepBalance" ELSE "trading"
          /\ trading[scan[s].token]
          /\ \E k \in DOMAIN tokenDetections' :
                /\ tokenDetections'[k].walletAddress = scan[s].wallet
                /\ ToLowerCase(tokenDetections'[k].tokenAddress) = ToLowerCase(scan[s].token)
                /\ tokenDetections'[k].tradingEnabled
          /\ sw'[i].balance = IF scan[s].phase = "catalog" THEN RereadBalance
                               ELSE scan[s].bal
          /\ scan[s].phase = "catalog"
               => \A k \in DOMAIN tokenDetections : tokenDetections[k].balance # sw'[i].balance
    ]_vars

\* a tick has called sweepToken from its catalog loop with the balance read
\* for the sweep, while the stored detection holds the balance read first
C28_Witness ==
  \E s \in ScanIds :
     /\ scan[s].kind = "tick" /\ scan[s].phase = "catalog" /\ scan[s].pc = "sweeping"
     /\ sw[scan[s].child].balance = RereadBalance
     /\ \E k \in DOMAIN tokenDetections :
           /\ ToLowerCase(tokenDetections[k].tokenAddress) = ToLowerCase(scan[s].token)
           /\ tokenDetections[k].balance = 1 /\ tokenDetections[k].tradingEnabled

\* C29: a query of the poller that returns no receipt record and leaves the
\* count of attempts below maxAttempts, the query that throws included,
\* leaves the poller armed for the next interval.
C29_FailedQueryRearms ==
  [][\A tx \in SweepIds :
       (/\ poll[tx].state = "armed"
        /\ poll'[tx].queries = poll[tx].queries + 1
        /\ poll'[tx].writes = poll[tx].writes
        /\ poll'[tx].attempts < maxAttempts)
         => poll'[tx].state = "armed"]_vars

\* a poller stops only at a receipt, at the attempt bound, or at a query that
\* threw, which does not count as an attempt
C29_StopsOnlyAtReceiptBoundOrThrow ==
  [][\A tx \in SweepIds :
       (poll[tx].state = "armed" /\ poll'[tx].state = "stopped")
         => \/ poll'[tx].writes = poll[tx].writes + 1
            \/ poll'[tx].attempts = maxAttempts
            \/ poll'[tx].attempts = poll[tx].attempts]_vars

\* C30: an invocation submits its transfer with its own transaction record
\* stored as pending, without a hash; an invocation that returns a hash
\* leaves that record completed with the hash it returns and has started the
\* poller of that record, which no other step starts and which is started
\* once.
C30_SubmittedSweepRecorded ==
  [][/\ \A i \in SweepIds :
          /\ (~sw[i].submitted /\ sw'[i].submitted)
               => /\ sw[i].txId \in DOMAIN transactions
                  /\ transactions[sw[i].txId].by = i
                  /\ transactions[sw[i].txId].status = "pending"
                  /\ transactions[sw[i].txId].txHash = 0
                  /\ poll[sw[i].txId].started = 0
          /\ (sw[i].pc = "transfer" /\ sw'[i].pc \notin {"transfer", "catch"})
               => sw'[i].pc = "updated"
          /\ (sw[i].pc # "done" /\ sw'[i].pc = "done" /\ sw'[i].result > 0)
               => /\ sw[i].submitted /\ sw'[i].txId = sw[i].txId
                  /\ transactions'[sw[i].txId].by = i
                  /\ transactions'[sw[i].txId].txHash = sw'[i].result
                  /\ transactions'[sw[i].txId].status = "completed"
                  /\ poll'[sw[i].txId].state = "armed"
                  /\ poll'[sw[i].txId].started = 1
     /\ \A tx \in SweepIds :
          poll'[tx].started # poll[tx].started
            => \E i \in SweepIds :
                  /\ sw[i].txId = tx /\ sw[i].pc # "done"
                  /\ sw'[i].pc = "done" /\ sw'[i].result > 0
    ]_vars

\* an invocation has returned the hash of its transfer; the record it
\* created holds that hash, is completed, and its poller waits for its first
\* query
C30_Witness ==
  \E i \in SweepIds :
     /\ sw[i].pc = "done" /\ sw[i].result > 0 /\ sw[i].submitted
     /\ transactions[sw[i].txId].txHash = sw[i].result
     /\ transactions[sw[i].txId].status = "completed"
     /\ poll[sw[i].txId].state = "armed" /\ poll[sw[i].txId].queries = 0
     /\ poll[sw[i].txId].started = 1

NetworkLoadLevels == {25, 50, 75, 95}

\* C31 as stated: in every state the level is one of the four levels, and
\* the level of the base fee sampled last.
C31_LevelIsBucket ==
  /\ currentNetworkLoad \in NetworkLoadLevels
  /\ sampled >= 0 => currentNetworkLoad = NetworkLoadOf(sampled)

\* C31 amended: the level is 0, which getOptimalGasPrice prices as the lowest
\* level, until a sample has been answered; from then on it is one of the
\* four levels, the level of the base fee answered last, and a sample that
\* fails leaves it as it is. A price is computed with the level of that moment.
C31_LevelIsBucketOnceSampled ==
  /\ IF sampled < 0 THEN currentNetworkLoad = 0
     ELSE /\ currentNetworkLoad \in NetworkLoadLevels
          /\ currentNetworkLoad = NetworkLoadOf(sampled)
  /\ CongestionFactor(0) = CongestionFactor(25)
  /\ \A i \in SweepIds : sw[i].pc \in {"created", "logged", "transfer"}
        => sw[i].load \in NetworkLoadLevels \cup {0}

\* a fee of 100 gwei or more was sampled and a sweep was priced at the
\* highest level
C31_Witness ==
  /\ sampled >= 100 /\ currentNetworkLoad = 95
  /\ \E i \in SweepIds : sw[i].pc = "transfer" /\ sw[i].load = 95

\* the detector tasks of wallet w
TasksOf(w) == {s \in ScanIds : scan[s].pc # "idle" /\ scan[s].wallet = w}

\* C32: whatever the scans and sweeps of the other wallet are waiting for, the
\* armed timer of a monitored wallet can tick and start its scan as soon as
\* the event loop takes a timer; the tick leaves the tasks in progress as
\* they are, and no step of a task or sweep of one wallet disarms the timer
\* or ends the monitoring of the other.
C32_TicksIndependent ==
  /\ [](\A w \in PrefixWallets :
          (timers[w] > 0 /\ ToLowerCase(w) \in monitoringWallets /\ MacroTurn /\ ScanFree)
            => ENABLED Tick(w))
  /\ [][/\ \A s \in ScanIds :
            (scan[s].pc = "idle" /\ scan'[s].kind = "tick")
              => /\ scan'[s].pc = "balance" /\ scan'[s].token = Head(knownTokens)
                 /\ \A r \in ScanIds \ {s} : scan'[r] = scan[r]
                 /\ sw' = sw
       /\ timers' = timers /\ monitoringWallets' = monitoringWallets]_vars

\* a tick of W2 has started its scan while the scan of W1 waits for its
\* sweep, which waits for the ledger to answer the transfer
C32_Witness ==
  \E s \in TasksOf(W1), r \in TasksOf(W2) :
     /\ scan[s].pc = "sweeping" /\ sw[scan[s].child].pc = "transfer"
     /\ scan[r].kind = "tick" /\ scan[r].pc = "balance"

\* the poller of tx obtains a receipt in this step
ObtainsReceipt(tx) == poll'[tx].writes = poll[tx].writes + 1

\* what C33 says apart from the gas: the status follows the success
\* indicator of the receipt, the confirming block is recorded, one event
\* and nothing else is published, the poller stops, and a stopped poller
\* makes no query
ReceiptStatusBlockEvent(tx) ==
  LET r == poll'[tx].got
  IN /\ transactions'[tx].status = IF r.status THEN "completed" ELSE "failed"
     /\ transactions'[tx].blockNumber = r.blockNumber
     /\ EventCount("transaction_receipt")' = EventCount("transaction_receipt") + 1
     /\ BagCardinality(events') = BagCardinality(events) + 1
     /\ poll'[tx].state = "stopped"

StoppedPollerSilent ==
  \A tx \in SweepIds :
     (poll[tx].state = "stopped" /\ poll'[tx].started = poll[tx].started)
       => poll'[tx].queries = poll[tx].queries /\ poll'[tx].state = "stopped"

\* C33: a poller that obtains a receipt records its status, the gas it
\* reports as consumed, which is not zero, and its block, publishes one
\* event and stops for good.
C33_ReceiptRecorded ==
  [][/\ \A tx \in SweepIds :
          ObtainsReceipt(tx)
            => /\ ReceiptStatusBlockEvent(tx)
               /\ poll'[tx].got.gasUsed > 0 => transactions'[tx].gasUsed > 0
     /\ StoppedPollerSilent]_vars

\* what the code records as gas: the cost of lines 586-588
C33_ReceiptCostRecorded ==
  [][/\ \A tx \in SweepIds :
          ObtainsReceipt(tx)
            => /\ ReceiptStatusBlockEvent(tx)
               /\ transactions'[tx].gasUsed
                    = GasCostETH(poll'[tx].got.gasUsed, poll'[tx].got.gasPrice)
     /\ StoppedPollerSilent]_vars

\* invocation i is past the guard of line 412 and has not returned
Running(i) == sw[i].pc \notin {"idle", "done"}

\* C34: when an invocation returns while a later invocation for the same
\* key is running and the key is in activeSweeps, where the later one put
\* it, the key stays in activeSweeps.
C34_ReleaseOwnLockOnly ==
  [][\A i, j \in SweepIds :
       (/\ i < j /\ Running(i) /\ Running(j) /\ ~Running(i)'
        /\ SweepKey(sw[i].wallet, sw[i].token) = SweepKey(sw[j].wallet, sw[j].token)
        /\ SweepKey(sw[j].wallet, sw[j].token) \in activeSweeps)
         => SweepKey(sw[j].wallet, sw[j].token) \in activeSweeps']_vars

\* C35: W2, which registered nothing, has no task at the asset that W1
\* registered, no detection of it and no sweep of it.
C35_RegisteredAssetPrivate ==
  /\ specificTokensToMonitor[W2] = <<>>
  /\ \A s \in TasksOf(W2) : ToLowerCase(scan[s].token) # TNew
  /\ \A k \in DOMAIN tokenDetections :
        tokenDetections[k].walletAddress = W2
          => ToLowerCase(tokenDetections[k].tokenAddress) # TNew
  /\ \A i \in SweepIds :
        sw[i].wallet = W2 => ToLowerCase(sw[i].token) # TNew

\* the asset spreads to W2 only through knownTokens, and only there
C35_WatchListPrivate ==
  /\ specificTokensToMonitor[W2] = <<>>
  /\ \A s \in TasksOf(W2) :
        ToLowerCase(scan[s].token) = TNew
          => scan[s].phase = "catalog" /\ IsKnownToken(knownTokens, TNew)

\* W2 sweeps the asset that only W1 registered
C35_SweptByOther ==
  \E i \in SweepIds : sw[i].wallet = W2 /\ sw[i].token = TNew /\ sw[i].pc = "transfer"

\* C36: the ticks, all of which start after the asset was deregistered, are
\* never at that asset, and no scan sweeps it.
C36_DeregisteredAssetForgotten ==
  /\ \A s \in ScanIds : scan[s].kind = "tick" => ToLowerCase(scan[s].token) # TNew
  /\ \A i \in SweepIds :
        sw[i].source \in {"catalog", "watch"} => ToLowerCase(sw[i].token) # TNew

\* the loop over the watch-list is never at the deregistered asset
C36_WatchLoopForgets ==
  \A s \in ScanIds :
     (scan[s].kind = "tick" /\ ToLowerCase(scan[s].token) = TNew)
       => scan[s].phase = "catalog" /\ Deregistered

\* a tick sweeps the deregistered asset
C36_SweptAfterwards ==
  \E i \in SweepIds : sw[i].source = "catalog" /\ sw[i].token = TNew /\ sw[i].pc = "transfer"

\* the loop over the watch-list of task s ends in this step
WatchLoopEnds(s) == scan[s].phase = "specific" /\ scan'[s].pc = "idle"

\* C37: TCat stays on the watch-list, as its last element, so a loop over
\* the watch-list ends at TCat, having probed it.
C37_WatchLoopComplete ==
  [][\A s \in ScanIds : WatchLoopEnds(s) => scan[s].token = TCat]_vars

\* a loop over the watch-list ends at TCat when the list still holds the
\* token of the loop at the position of the loop, that is when no earlier
\* element was spliced out under it
C37_UndisturbedLoopComplete ==
  [][\A s \in ScanIds :
       (/\ WatchLoopEnds(s)
        /\ scan[s].idx <= Len(specificTokensToMonitor[W1])
        /\ specificTokensToMonitor[W1][scan[s].idx] = scan[s].token)
         => scan[s].token = TCat]_vars

(***************************************************************************)
(* SpecCase: a wallet with automated sweeping holds the catalog asset; its *)
(* timer ticks, and the manual sweep route is called with the address of   *)
(* the asset in upper case                                                 *)
(***************************************************************************)
CaseRoutes ==
  \/ Tick(W1)
  \/ ManualSweepRoute(W1, TCatUpper, "medium")
  \/ EnableTrading(TCat)

CaseSteps ==
  \E s \in ScanIds :
     \/ ScanBalance(s, 1)
     \/ ScanTrading(s)
     \/ ScanSweepBalance(s, 1)
     \/ ScanSweepReturned(s)

NextCase == CaseRoutes \/ CaseSteps \/ SweepSteps

SpecCase == InitLoad /\ [][NextCase]_vars

(***************************************************************************)
(* The lock key and the letter case of the asset address                   *)
(***************************************************************************)
\* invocation i is past the guard of line 412 and has not returned
PastGuard(i) == sw[i].pc \notin {"idle", "done"}

\* i and j name the same wallet and the same asset, whatever the spelling
SameAsset(i, j) ==
  /\ sw[i].wallet = sw[j].wallet
  /\ ToLowerCase(sw[i].token) = ToLowerCase(sw[j].token)

\* C38: two sweep invocations for the same wallet and the same asset are
\* never in progress together, also when they spell the asset address with
\* different letter case: the second one returns the no-op result
C38_OneSweepPerAsset ==
  \A i, j \in SweepIds :
     (i # j /\ PastGuard(i) /\ PastGuard(j)) => ~SameAsset(i, j)

\* what the key of line 409 does give: with the same spelling, one at a time
C38_OneSweepPerSpelling ==
  \A i, j \in SweepIds :
     (i # j /\ PastGuard(i) /\ PastGuard(j))
        => SweepKey(sw[i].wallet, sw[i].token) # SweepKey(sw[j].wallet, sw[j].token)

\* the scan's sweep and a manual sweep of the same asset, both submitted
C38_BothSubmitted ==
  \E i, j \in SweepIds :
     /\ i # j /\ SameAsset(i, j)
     /\ sw[i].source = "catalog" /\ sw[j].source = "manual"
     /\ sw[i].result > 0 /\ sw[j].result > 0

(***************************************************************************)
(* SpecPrice: sweepToken is called for the catalog asset and for an asset  *)
(* the price table does not list, for a wallet of any stored configuration *)
(***************************************************************************)
PriceTokens == {TCat, TNew, TNewUpper}

PriceCalls ==
  \E t \in PriceTokens, b \in SweepBalances, u \in SweepUrgencies : SweepToken(W1, t, b, u)

NextPrice == PriceCalls \/ SweepSteps \/ PollSteps

SpecPrice == InitSweep /\ [][NextPrice]_vars

\* the address is not a key of the price table
Unlisted(t) == ToLowerCase(t) # TCat

\* invocation i has read the configuration of a wallet whose threshold is > 0
\* and has computed the value of its amount
ValuedAboveZeroThreshold(i) ==
  /\ sw[i].pc \notin {"idle", "config", "catch", "catchMarked", "catchLogged"}
  /\ ~sw[i].blocked
  /\ sw[i].cfg.exists /\ sw[i].cfg.isActive
  /\ sw[i].cfg.minTransferAmount > 0

\* C39: the value of any amount of an asset without an entry in the price
\* table is 0; for a wallet whose threshold is greater than 0 sweepToken
\* creates no transaction record and submits no transfer for such an asset
C39_UnlistedNeverSwept ==
  /\ \A i \in SweepIds :
        (Unlisted(sw[i].token) /\ sw[i].pc \notin {"idle", "config"} /\ ~sw[i].blocked
           /\ sw[i].cfg.exists /\ sw[i].cfg.isActive)
          => sw[i].usd = 0
  /\ \A i \in SweepIds :
        (Unlisted(sw[i].token) /\ sw[i].cfg.exists /\ sw[i].cfg.minTransferAmount > 0)
          => /\ sw[i].txId = 0
             /\ ~sw[i].submitted
             /\ sw[i].result <= 0
  /\ \A k \in DOMAIN transactions :
        (Unlisted(transactions[k].tokenAddress)
           /\ GetWalletConfig(walletConfigs, transactions[k].walletAddress).exists)
          => GetWalletConfig(walletConfigs, transactions[k].walletAddress).minTransferAmount = 0

\* the largest balance of the unlisted asset, in either spelling, was valued
\* and the invocation returned without asking for a fee price
C39_Witness ==
  \E i \in SweepIds :
     /\ sw[i].token = TNewUpper /\ sw[i].balance = MaxBal
     /\ ValuedAboveZeroThreshold(i)
     /\ sw[i].pc = "done" /\ sw[i].usd = 0 /\ ~sw[i].gasAsked

(***************************************************************************)
(* The state an emergency stop leaves, and the sweeps started after it     *)
(***************************************************************************)
\* the step is the completion of the emergency stop requested for r
\* (<<>>: for all wallets)
StopCompletes(r) == events' = Broadcast(events, "emergency_stop", 0, r)

\* the request for r covers wallet w: w is r, or none was given and w is monitored
CoveredAt(r, w) ==
  IF r = <<>> THEN ToLowerCase(w) \in monitoringWallets ELSE w = r

StopRequested(r) ==
  \E e \in BagToSet(events) : e.type = "emergency_stop" /\ e.wallet = r

\* an emergency stop that covered w has completed: one for w, or one for all
\* wallets that was the first stop, when every configured wallet was monitored
CoveredByStop(w) ==
  \/ StopRequested(w)
  \/ StopRequested(<<>>) /\ \A v \in StopWallets : ~StopRequested(v)

\* the stop requested for r leaves every wallet it covers unmonitored, with an
\* inactive configuration and without a lock
StopLeaves(r) ==
  \A w \in StopWallets :
     (StopCompletes(r) /\ CoveredAt(r, w))
       => /\ ToLowerCase(w) \notin monitoringWallets'
          /\ ~GetWalletConfig(walletConfigs', w).isActive
          /\ KeysOfWallet(activeSweeps', w) = {}

\* invocation i starts in this step
Starts(i) == sw[i].pc = "idle" /\ sw'[i].pc # "idle"

\* an invocation that starts for a wallet a completed stop covered does not
\* get past the configuration check of line 422, so it submits nothing
HaltedAtStart(i) ==
  (Starts(i) /\ CoveredByStop(sw'[i].wallet))
    => sw'[i].blocked \/ ~sw'[i].cfg.exists \/ ~sw'[i].cfg.isActive

\* C40: after the emergency stop, for one wallet or for all, every wallet it
\* covers is unmonitored, inactive in storage and without a lock, and a
\* sweep started afterwards for such a wallet submits no transfer
C40_StopHaltsCoveredWallets ==
  /\ [][\A r \in StopWallets \cup {<<>>} : StopLeaves(r)]_vars
  /\ [][\A i \in SweepIds : HaltedAtStart(i)]_vars

\* the same for the stop of one given wallet only
C40_SingleStopHalts ==
  /\ [][\A r \in StopWallets : StopLeaves(r)]_vars
  /\ [][\A i \in SweepIds :
          (Starts(i) /\ StopRequested(sw'[i].wallet))
            => sw'[i].blocked \/ ~sw'[i].cfg.exists \/ ~sw'[i].cfg.isActive]_vars

\* an invocation that read no active configuration never submits
C40_InactiveNeverSubmits ==
  \A i \in SweepIds :
     (sw[i].pc \notin {"idle"} /\ ~sw[i].blocked
        /\ (~sw[i].cfg.exists \/ ~sw[i].cfg.isActive))
       => ~sw[i].submitted /\ sw[i].result <= 0

\* after the stop for all wallets the configuration of the mixed-case wallet
\* is still active, and the wallet was swept
C40_SweptAfterStopAll ==
  /\ StopRequested(<<>>)
  /\ GetWalletConfig(walletConfigs, WMixed).isActive
  /\ \A i \in SweepIds : sw[i].pc # "idle" => sw[i].wallet = WMixed /\ sw[i].submitted
  /\ \E i \in SweepIds : sw[i].submitted

====
